---- MODULE Spec2Model ----
(***************************************************************************)
(* A model of four parts of the rhai scripting engine:                     *)
(*   - Scope (src/src/scope.rs): the ordered stack of variable bindings,   *)
(*   - the native-function registration thunks (src/src/fn_register.rs),   *)
(*   - the custom-syntax registry of Engine (src/src/syntax.rs),           *)
(*   - the functions on object maps (src/src/packages/map_basic.rs).       *)
(* Each part has its own specification; the variables of the other parts   *)
(* stay as they are initialised.                                           *)
(***************************************************************************)
EXTENDS Integers, Sequences, FiniteSets, TLC

VARIABLES
    values,     \* Scope::values : the Dynamic of each entry
    names,      \* Scope::names  : (name, aliases) of each entry
    pre,        \* the Scope as it was when the last operation was called
    lastOp,     \* the last operation called on the Scope, with its arguments
    ret,        \* what the last operation returned (or that it panicked)
    marked,     \* the Scope a block recorded on entry, while only pushes followed
    callable,   \* the registered native function: ABI, parameters, type binding
    args,       \* FnCallArgs: the argument slots handed to the thunk
    args0,      \* the argument slots as they were when the thunk was invoked
    pc,         \* where the thunk is
    params,     \* the parameters converted so far, in the order of conversion
    lock,       \* the 0-based slots on which a DynamicWriteLock is held
    hostCalls,  \* how often the thunk has called the host function
    hostArgs,   \* the parameters the host function was called with
    hostRet,    \* what the host function returned
    hostWrote,  \* what the host function wrote through its &mut receiver (-1: nothing)
    result,     \* what the thunk returned
    other,      \* another holder of the value of slot 0: idle, reading or writing
    disabled_symbols,   \* Engine::disabled_symbols
    custom_keywords,    \* Engine::custom_keywords : keyword -> Option<precedence>
    custom_syntax,      \* Engine::custom_syntax : key -> CustomSyntax
    synPre,     \* the two tables as they were when the last registration was called
    synOp,      \* the last registration call, with its arguments
    synRet,     \* what the last registration call returned
    parsing,    \* the parser in a custom syntax: where it is, and the rule's key
    stream,     \* the segments the parser has matched so far
    expected,   \* what the rule's parse callback returned when last called
    mapVar,     \* the object map of the script variable `map`
    map2Var,    \* the object map of a second script variable
    mapPre,     \* the two maps as they were when the last map function was called
    mapOp,      \* the last map function called
    mapRet,     \* what the last map function returned
    forLoop     \* the script of test_for_object: where it is, and its variables

scopeVars == <<values, names, pre, lastOp, ret, marked>>

bridgeVars == <<callable, args, args0, pc, params, lock, hostCalls, hostArgs, hostRet, hostWrote, result, other>>

syntaxVars == <<disabled_symbols, custom_keywords, custom_syntax, synPre, synOp, synRet>>

parserVars == <<parsing, stream, expected>>

mapVars == <<mapVar, map2Var, mapPre, mapOp, mapRet, forLoop>>

vars == <<scopeVars, bridgeVars, syntaxVars, parserVars, mapVars>>

\* What an operation on the Scope, a step of the thunk, a registration of
\* custom syntax leaves alone.
notScope == <<bridgeVars, syntaxVars, parserVars, mapVars>>

notBridge == <<scopeVars, syntaxVars, parserVars, mapVars>>

notSyntax == <<scopeVars, bridgeVars, mapVars>>

notMap == <<scopeVars, bridgeVars, syntaxVars, parserVars>>

----------------------------------------------------------------------------
(* Bounds and input alphabets of the Scope model. *)

MaxLen == 3

ScopeNames == {"x", "y"}

IntVals == {10, 20}

AccessModes == {"ReadWrite", "ReadOnly"}

AliasNames == {"a"}

----------------------------------------------------------------------------
(* Dynamic: a tagged value that carries its own access mode. *)

Dyn(t, v, a) == [type |-> t, val |-> v, access |-> a]

\* Dynamic::from(value): a fresh Dynamic is ReadWrite.
DynamicFrom(v) == Dyn("int", v, "ReadWrite")

\* Dynamic::set_access_mode
set_access_mode(d, access) == [d EXCEPT !.access = access]

\* Dynamic::access_mode
access_mode(d) == d.access

\* Dynamic::is_read_only
is_read_only(d) == access_mode(d) = "ReadOnly"

\* Dynamic::flatten_clone: no shared wrappers in this model, a plain clone.
flatten_clone(d) == d

\* Dynamic::try_cast::<T>: the payload when the type matches.
None == [kind |-> "none"]

Some(v) == [kind |-> "some", v |-> v]

try_cast(d, T) == IF d.type = T THEN Some(d.val) ELSE None

\* The Dynamic values a caller can hand to the Scope.
Dynamics == {Dyn("int", v, a) : v \in IntVals, a \in AccessModes}

\* The types get_value is asked for, and Dynamic values of both.
ValueTypes == {"int", "str"}

TypedDynamics ==
    {Dyn("int", 10, "ReadWrite"), Dyn("str", "s", "ReadWrite"), Dyn("int", 20, "ReadOnly")}

----------------------------------------------------------------------------
(* Scope, as a record of its two arrays. *)

ScopeOf(vs, ns) == [values |-> vs, names |-> ns]

Self == ScopeOf(values, names)

\* Scope::new / Default
new == ScopeOf(<<>>, <<>>)

\* Scope::len
len(sc) == Len(sc.values)

\* Scope::is_empty
is_empty(sc) == Len(sc.values) = 0

NameEntry(name) == [name |-> name, alias |-> <<>>]

\* A push that updates the latest binding of the name when there is one.
push_dynamic_value_update(sc, name, access, value) ==
    LET ps == {k \in 1..Len(sc.names) : sc.names[k].name = name}
    IN  IF ps = {}
        THEN ScopeOf(Append(sc.values, set_access_mode(value, access)),
                     Append(sc.names, [name |-> name, alias |-> <<>>]))
        ELSE LET top == CHOOSE k \in ps : \A j \in ps : j <= k
             IN  ScopeOf([sc.values EXCEPT ![top] = set_access_mode(value, access)],
                         sc.names)

\* Scope::push_dynamic_value
push_dynamic_value(sc, name, access, value) ==
    ScopeOf(Append(sc.values, set_access_mode(value, access)),
            Append(sc.names, NameEntry(name)))

\* Scope::push
push(sc, name, value) ==
    push_dynamic_value(sc, name, "ReadWrite", DynamicFrom(value))

\* Scope::push_dynamic
push_dynamic(sc, name, value) ==
    push_dynamic_value(sc, name, access_mode(value), value)

\* Scope::push_constant
push_constant(sc, name, value) ==
    push_dynamic_value(sc, name, "ReadOnly", DynamicFrom(value))

\* Scope::push_constant_dynamic
push_constant_dynamic(sc, name, value) ==
    push_dynamic_value(sc, name, "ReadOnly", value)

\* A truncate that drops every element when it has to drop one.
truncate_all(s, size) == IF size >= Len(s) THEN s ELSE <<>>

\* Vec::truncate
truncate(s, size) == IF size >= Len(s) THEN s ELSE SubSeq(s, 1, size)

\* A rewind that truncates the names and forgets the values.
rewind_names_only(sc, size) == ScopeOf(sc.values, truncate(sc.names, size))

\* Scope::rewind
rewind(sc, size) == ScopeOf(truncate(sc.values, size), truncate(sc.names, size))

\* Scope::clear
clear(sc) == ScopeOf(<<>>, <<>>)

\* A scan that forgets .rev(): it returns the first match from the front.
RECURSIVE FwdFindFrom(_, _, _)
FwdFindFrom(ns, name, k) ==
    IF k > Len(ns) THEN -1
    ELSE IF ns[k].name = name THEN k - 1
    ELSE FwdFindFrom(ns, name, k + 1)

RevFind_forward(ns, name, i) == IF i = 0 THEN -1 ELSE FwdFindFrom(ns, name, 1)

\* names.iter().enumerate().rev().find(...): the scan from the last entry
\* down to the first; i is the number of entries not yet looked at.
\* The result is the 0-based index of the first match met, or -1.
RECURSIVE RevFind(_, _, _)
RevFind(ns, name, i) ==
    IF i = 0 THEN -1
    ELSE IF ns[i].name = name THEN i - 1
    ELSE RevFind(ns, name, i - 1)

\* Scope::contains
contains(sc, name) == RevFind(sc.names, name, Len(sc.names)) # -1

\* Scope::get_index
get_index(sc, name) ==
    LET index == RevFind(sc.names, name, Len(sc.names))
    IN  IF index = -1 THEN None
        ELSE Some([index |-> index, access |-> access_mode(sc.values[index + 1])])

\* A lookup that goes on to an older binding when the type does not fit.
RECURSIVE RevFindTyped(_, _, _, _)
RevFindTyped(sc, name, T, i) ==
    IF i = 0 THEN [kind |-> "none"]
    ELSE IF sc.names[i].name = name /\ sc.values[i].type = T
    THEN [kind |-> "some", v |-> sc.values[i].val]
    ELSE RevFindTyped(sc, name, T, i - 1)

get_value_fallback(sc, name, T) == RevFindTyped(sc, name, T, Len(sc.names))

\* Scope::get_value::<T>
get_value(sc, name, T) ==
    LET index == RevFind(sc.names, name, Len(sc.names))
    IN  IF index = -1 THEN None
        ELSE try_cast(flatten_clone(sc.values[index + 1]), T)

\* A set_value that shadows a binding instead of updating it.
set_value_shadow(sc, name, value) ==
    LET found == get_index(sc, name)
    IN  IF found.kind = "some" /\ found.v.access = "ReadOnly"
        THEN [panic |-> TRUE, scope |-> sc]
        ELSE [panic |-> FALSE, scope |-> push(sc, name, value)]

\* A set_value that overwrites a constant instead of panicking.
set_value_overwrite(sc, name, value) ==
    LET found == get_index(sc, name)
    IN  IF found.kind = "none"
        THEN [panic |-> FALSE, scope |-> push(sc, name, value)]
        ELSE [panic |-> FALSE,
              scope |-> ScopeOf([sc.values EXCEPT ![found.v.index + 1] = DynamicFrom(value)],
                                sc.names)]

\* Scope::set_value: the Scope afterwards, and whether the call panicked.
set_value(sc, name, value) ==
    LET found == get_index(sc, name)
    IN  IF found.kind = "none"
        THEN [panic |-> FALSE, scope |-> push(sc, name, value)]
        ELSE IF found.v.access = "ReadOnly"
        THEN [panic |-> TRUE, scope |-> sc]
        ELSE [panic |-> FALSE,
              scope |-> ScopeOf([sc.values EXCEPT ![found.v.index + 1] = DynamicFrom(value)],
                                sc.names)]

\* A get_mut that hands out a handle whatever the access mode.
get_mut_any_access(sc, name) ==
    LET found == get_index(sc, name)
    IN  IF found.kind = "none" THEN None ELSE Some(found.v.index)

\* Scope::get_mut: the 0-based index of the slot the handle refers to, or None.
get_mut(sc, name) ==
    LET found == get_index(sc, name)
    IN  IF found.kind = "none" THEN None
        ELSE IF found.v.access = "ReadWrite" THEN Some(found.v.index)
        ELSE None

\* A handle that refers to a copy of the slot: the write is lost.
write_handle_detached(sc, index, d) == sc

\* A write through the handle of Scope::get_mut / Scope::get_mut_by_index.
write_handle(sc, index, d) ==
    ScopeOf([sc.values EXCEPT ![index + 1] = d], sc.names)

\* A test that never finds the alias.
HasAlias_never(aliases, alias) == FALSE

\* entry.1.iter().any(|a| &alias == a)
HasAlias(aliases, alias) == \E k \in 1..Len(aliases) : aliases[k] = alias

\* Scope::add_entry_alias (index is 0-based; an alias list of <<>> is None)
add_entry_alias(sc, index, alias) ==
    LET entry == sc.names[index + 1]
    IN  IF HasAlias(entry.alias, alias) THEN sc
        ELSE ScopeOf(sc.values,
                     [sc.names EXCEPT ![index + 1].alias = Append(entry.alias, alias)])

\* A test that never finds the name.
HasName_never(ns, name) == FALSE

\* entries.names.iter().any(|(key, _)| key == name)
HasName(ns, name) == \E k \in 1..Len(ns) : ns[k].name = name

\* Scope::clone_visible: the loop over the entries from the last one down;
\* i is the number of entries not yet visited, entries the copy so far.
RECURSIVE CloneVisibleLoop(_, _, _)
CloneVisibleLoop(sc, i, entries) ==
    IF i = 0 THEN entries
    ELSE IF ~HasName(entries.names, sc.names[i].name)
    THEN CloneVisibleLoop(sc, i - 1,
             ScopeOf(Append(entries.values, sc.values[i]),
                     Append(entries.names, sc.names[i])))
    ELSE CloneVisibleLoop(sc, i - 1, entries)

\* A clone that keeps the first binding of each name instead of the last.
RECURSIVE CloneOldestLoop(_, _, _)
CloneOldestLoop(sc, i, entries) ==
    IF i > Len(sc.names) THEN entries
    ELSE IF \E k \in 1..Len(entries.names) : entries.names[k].name = sc.names[i].name
    THEN CloneOldestLoop(sc, i + 1, entries)
    ELSE CloneOldestLoop(sc, i + 1,
             ScopeOf(Append(entries.values, sc.values[i]),
                     Append(entries.names, sc.names[i])))

clone_visible_oldest(sc) == CloneOldestLoop(sc, 1, new)

clone_visible(sc) == CloneVisibleLoop(sc, Len(sc.names), new)

\* An iteration from the last entry to the first.
iter_raw_newest_first(sc) ==
    LET n == IF Len(sc.names) <= Len(sc.values) THEN Len(sc.names) ELSE Len(sc.values)
    IN  [k \in 1..n |->
            [name |-> sc.names[n + 1 - k].name,
             constant |-> sc.values[n + 1 - k].access = "ReadOnly",
             value |-> sc.values[n + 1 - k]]]

\* Scope::iter_raw: (name, is_constant, value) of each entry, first to last.
\* zip stops at the shorter of the two arrays.
iter_raw(sc) ==
    LET n == IF Len(sc.names) <= Len(sc.values) THEN Len(sc.names) ELSE Len(sc.values)
    IN  [k \in 1..n |->
            [name |-> sc.names[k].name,
             constant |-> is_read_only(sc.values[k]),
             value |-> sc.values[k]]]

\* Scope::iter
iter(sc) ==
    LET raw == iter_raw(sc)
    IN  [k \in 1..Len(raw) |-> [raw[k] EXCEPT !.value = flatten_clone(raw[k].value)]]

\* impl Extend for Scope: items is a sequence of <<name, Dynamic>>.
RECURSIVE extend(_, _)
extend(sc, items) ==
    IF items = <<>> THEN sc
    ELSE extend(ScopeOf(Append(sc.values, items[1][2]),
                        Append(sc.names, NameEntry(items[1][1]))),
                Tail(items))

----------------------------------------------------------------------------
(* The operations on the Scope, one action each. *)

PushOps == {"push", "push_dynamic", "push_constant", "push_constant_dynamic"}

\* No block has recorded the Scope, or something else than a push followed.
NoMark == [kind |-> "none"]

Returned(op, sc, r) ==
    /\ pre' = Self
    /\ lastOp' = op
    /\ marked' = IF op.op \in PushOps THEN marked ELSE NoMark
    /\ values' = sc.values
    /\ names' = sc.names
    /\ ret' = r
    /\ UNCHANGED notScope

RetSelf == [kind |-> "self"]

RetPanic == [kind |-> "panic"]

Push(name, value) ==
    /\ len(Self) < MaxLen
    /\ Returned([op |-> "push", name |-> name, value |-> value],
                push(Self, name, value), RetSelf)

PushDynamic(name, d) ==
    /\ len(Self) < MaxLen
    /\ Returned([op |-> "push_dynamic", name |-> name, value |-> d],
                push_dynamic(Self, name, d), RetSelf)

PushConstant(name, value) ==
    /\ len(Self) < MaxLen
    /\ Returned([op |-> "push_constant", name |-> name, value |-> value],
                push_constant(Self, name, value), RetSelf)

PushConstantDynamic(name, d) ==
    /\ len(Self) < MaxLen
    /\ Returned([op |-> "push_constant_dynamic", name |-> name, value |-> d],
                push_constant_dynamic(Self, name, d), RetSelf)

Rewind(size) ==
    Returned([op |-> "rewind", size |-> size, mark |-> marked], rewind(Self, size),
             RetSelf)

\* A block is entered: the caller records the Scope's length (here, with it,
\* the Scope, to compare with on exit).
Mark ==
    /\ marked' = [kind |-> "some", v |-> Self]
    /\ UNCHANGED <<values, names, pre, lastOp, ret, notScope>>

\* get_value::<T>(name)
GetValue(name, T) ==
    Returned([op |-> "get_value", name |-> name, type |-> T], Self,
             get_value(Self, name, T))

Clear ==
    Returned([op |-> "clear"], clear(Self), RetSelf)

SetValue(name, value) ==
    LET r == set_value(Self, name, value)
    IN  /\ len(r.scope) <= MaxLen
        /\ Returned([op |-> "set_value", name |-> name, value |-> value],
                    r.scope, IF r.panic THEN RetPanic ELSE RetSelf)

\* get_mut(name), followed by a write of d through the handle when there is one.
GetMutWrite(name, d) ==
    LET h == get_mut(Self, name)
    IN  Returned([op |-> "get_mut", name |-> name, value |-> d],
                 IF h.kind = "some" THEN write_handle(Self, h.v, d) ELSE Self,
                 h)

CloneVisible ==
    Returned([op |-> "clone_visible"], Self,
             [kind |-> "scope", v |-> clone_visible(Self)])

Extend(items) ==
    /\ len(Self) + Len(items) <= MaxLen
    /\ Returned([op |-> "extend", items |-> items], extend(Self, items), RetSelf)

AddEntryAlias(index, alias) ==
    /\ index < Len(names)
    /\ Returned([op |-> "add_entry_alias", index |-> index, alias |-> alias],
                add_entry_alias(Self, index, alias), RetSelf)

----------------------------------------------------------------------------
(* The registration of native functions (fn_register.rs). *)

\* def_register!(A, B, C, D, E, F, G, H, J, K, L, M, N, P, Q, R, S, T, U, V)
MacroParams ==
    <<"A", "B", "C", "D", "E", "F", "G", "H", "J", "K",
      "L", "M", "N", "P", "Q", "R", "S", "T", "U", "V">>

\* The expansion of def_register!: for a list p0, rest it gives the
\* implementations from_pure and from_method over the whole list and expands
\* the rest; for the empty list it gives from_pure alone.
RECURSIVE def_register(_)
def_register(ps) ==
    IF ps = <<>>
    THEN {[abi |-> "from_pure", pars |-> <<>>]}
    ELSE {[abi |-> "from_pure", pars |-> ps], [abi |-> "from_method", pars |-> ps]}
            \cup def_register(Tail(ps))

Impls == def_register(MacroParams)

\* The four impl blocks of (imp ...): the signature of FN.
Shapes == {"Plain", "PlainCtx", "Fallible", "FallibleCtx"}

IsFallible(shape) == shape \in {"Fallible", "FallibleCtx"}

\* The host types a generic parameter is instantiated with.
HostTypes == <<"i64", "&str", "String", "ImmutableString">>

LetterIndex(l) == CHOOSE k \in 1..Len(MacroParams) : MacroParams[k] = l

\* An instantiation of the generic parameters: seed picks the type of each.
Seeds == 0..3

TypeOfPar(l, seed) == HostTypes[((LetterIndex(l) + seed) % 4) + 1]

\* The type of Dynamic that holds a value of a host type.
DynTypeOf(T) == IF T = "i64" THEN "int" ELSE "str"

\* Dynamic::UNIT, what mem::take leaves behind.
UNIT == Dyn("unit", 0, "ReadWrite")

Converted(T, v) == [type |-> T, val |-> v]

\* A by_value that clones the argument and leaves the slot as it is.
by_value_clone(T, data) ==
    IF data.type = DynTypeOf(T)
    THEN [slot |-> data, panic |-> FALSE, out |-> Converted(T, data.val)]
    ELSE [slot |-> data, panic |-> TRUE, out |-> Converted(T, 0)]

\* by_value::<T>(data): the slot afterwards, the value, or a panic.
by_value(T, data) ==
    IF T = "&str"
    THEN \* as_str_ref borrows from the slot, which keeps its value
         IF data.type = "str"
         THEN [slot |-> data, panic |-> FALSE, out |-> Converted(T, data.val)]
         ELSE [slot |-> data, panic |-> TRUE, out |-> Converted(T, 0)]
    ELSE IF T = "String"
    THEN \* mem::take(data).take_string().unwrap()
         IF data.type = "str"
         THEN [slot |-> UNIT, panic |-> FALSE, out |-> Converted(T, data.val)]
         ELSE [slot |-> UNIT, panic |-> TRUE, out |-> Converted(T, 0)]
    ELSE \* mem::take(data).cast::<T>()
         IF data.type = DynTypeOf(T)
         THEN [slot |-> UNIT, panic |-> FALSE, out |-> Converted(T, data.val)]
         ELSE [slot |-> UNIT, panic |-> TRUE, out |-> Converted(T, 0)]

\* A by_ref that takes the slot for a T whatever it holds.
by_ref_unchecked(T, data) ==
    [slot |-> data, panic |-> FALSE, out |-> Converted(T, data.val)]

\* A by_ref that works on a clone taken out of the slot.
by_ref_taken(T, data) ==
    IF data.type = DynTypeOf(T)
    THEN [slot |-> UNIT, panic |-> FALSE, out |-> Converted(T, data.val)]
    ELSE [slot |-> UNIT, panic |-> TRUE, out |-> Converted(T, 0)]

\* by_ref::<T>(data): data.write_lock::<T>().unwrap(); the slot is not touched.
by_ref(T, data) ==
    IF data.type = DynTypeOf(T)
    THEN [slot |-> data, panic |-> FALSE, out |-> Converted(T, data.val)]
    ELSE [slot |-> data, panic |-> TRUE, out |-> Converted(T, 0)]

\* $clone of the k-th parameter (1-based): by_ref for the first parameter of
\* from_method, by_value for every other.
IsByRef(abi, k) == abi = "from_method" /\ k = 1

clone_arg(abi, k, T, data) ==
    IF IsByRef(abi, k) THEN by_ref(T, data) ELSE by_value(T, data)

\* A lock that is a temporary: it is dropped as soon as the parameter is
\* converted.
held_locks_temporary(locks, abi, k, slot) == locks

\* The write locks the thunk holds when its k-th parameter is bound to the
\* slot: `let $par = by_ref(...)` keeps the DynamicWriteLock in a local of
\* the closure, by_value holds nothing.
held_locks(locks, abi, k, slot) ==
    IF IsByRef(abi, k) THEN locks \cup {slot} ELSE locks

\* Dynamic::write_lock gives a lock on the value of slot 0 only while no
\* other holder of that value reads or writes it.
write_lock_free == other = "idle"

\* RegisterNativeFunction::param_types of a callable
param_types(e) == [k \in 1..Len(e.pars) |-> TypeOfPar(e.pars[k], e.seed)]

\* An iterator that does not advance.
drain_stuck(k) == 1

\* The slot of _drain.next() when k parameters have been bound (1-based).
drain_next(k) == k + 1

\* A mapping that swallows the error of a fallible function.
map_result_swallow(shape, r) ==
    IF r.kind = "err" THEN [kind |-> "Ok", v |-> UNIT]
    ELSE [kind |-> "Ok", v |-> Dyn("int", r.v, "ReadWrite")]

\* "Map the result" of the thunk.
map_result(shape, r) ==
    IF IsFallible(shape)
    THEN IF r.kind = "ok" THEN [kind |-> "Ok", v |-> Dyn("int", r.v, "ReadWrite")]
         ELSE [kind |-> "Err", e |-> r.e]
    ELSE [kind |-> "Ok", v |-> Dyn("int", r.v, "ReadWrite")]

\* What the host function can return, by its signature.
HostErrors == {"E1", "E2"}

HostValues == {7}

HostReturns(shape) ==
    IF IsFallible(shape)
    THEN {[kind |-> "ok", v |-> v] : v \in HostValues}
            \cup {[kind |-> "err", e |-> e] : e \in HostErrors}
    ELSE {[kind |-> "value", v |-> v] : v \in HostValues}

\* What a method can write through its &mut receiver (-1: it writes nothing).
HostWrites == {-1, 99}

\* Slots that match the fingerprint: slot k holds the value 100 + k.
GoodArgs(e) ==
    [k \in 1..Len(e.pars) |->
        Dyn(DynTypeOf(TypeOfPar(e.pars[k], e.seed)), 100 + k, "ReadWrite")]

\* A Dynamic of the other type.
Mistyped(d) == [d EXCEPT !.type = IF d.type = "int" THEN "str" ELSE "int"]

\* The argument lists the thunk is invoked with: the matching one, and lists
\* that break the caller's precondition (one slot short, one slot more, the
\* first or the last slot of another type).
ArgLists(e) ==
    LET good == GoodArgs(e)
        n == Len(good)
    IN  {good, Append(good, Dyn("int", 0, "ReadWrite"))}
            \cup (IF n = 0 THEN {}
                  ELSE {SubSeq(good, 1, n - 1),
                        [good EXCEPT ![1] = Mistyped(good[1])],
                        [good EXCEPT ![n] = Mistyped(good[n])]})

NoEntry == [abi |-> "none", shape |-> "none", pars |-> <<>>, seed |-> 0]

NoRet == [kind |-> "none"]

BridgeInit ==
    /\ callable = NoEntry
    /\ args = <<>>
    /\ args0 = <<>>
    /\ pc = "unregistered"
    /\ params = <<>>
    /\ lock = {}
    /\ hostCalls = 0
    /\ hostArgs = <<>>
    /\ hostRet = NoRet
    /\ hostWrote = -1
    /\ result = NoRet
    /\ other = "idle"

\* Engine::register_fn with one implementation of RegisterNativeFunction.
Register(impl, shape, seed) ==
    /\ pc = "unregistered"
    /\ callable' = [abi |-> impl.abi, shape |-> shape, pars |-> impl.pars, seed |-> seed]
    /\ pc' = "ready"
    /\ UNCHANGED <<args, args0, params, lock, hostCalls, hostArgs, hostRet, hostWrote, result, other, notBridge>>

\* The dispatcher calls the thunk: let mut _drain = args.iter_mut();
Invoke(as) ==
    /\ pc = "ready"
    /\ args' = as
    /\ args0' = as
    /\ pc' = "bind"
    /\ UNCHANGED <<callable, params, lock, hostCalls, hostArgs, hostRet, hostWrote, result, other, notBridge>>

\* $let $par = ($clone)(_drain.next().unwrap()); for the next parameter.
BindPar ==
    /\ pc = "bind"
    /\ Len(params) < Len(callable.pars)
    /\ LET k == drain_next(Len(params))
           T == param_types(callable)[Len(params) + 1]
       IN  IF k > Len(args)
           THEN \* _drain.next() is None: unwrap panics
                /\ pc' = "panicked"
                /\ lock' = {}
                /\ UNCHANGED <<args, params>>
           ELSE LET c == clone_arg(callable.abi, Len(params) + 1, T, args[k])
                    busy == IsByRef(callable.abi, Len(params) + 1) /\ ~write_lock_free
                IN  /\ args' = [args EXCEPT ![k] = c.slot]
                    /\ IF c.panic \/ busy
                       THEN \* write_lock gave no lock, or the cast failed
                            /\ pc' = "panicked"
                            /\ lock' = {}
                            /\ UNCHANGED params
                       ELSE /\ pc' = "bind"
                            /\ params' = Append(params, c.out)
                            /\ lock' = held_locks(lock, callable.abi, Len(params) + 1, k - 1)
    /\ UNCHANGED <<callable, args0, hostCalls, hostArgs, hostRet, hostWrote, result, other, notBridge>>

\* let r = self($($arg),*): the host function runs; a method may write
\* through its &mut receiver, which is the locked slot.
CallHost(r, w) ==
    /\ pc = "bind"
    /\ Len(params) = Len(callable.pars)
    /\ w # -1 => lock # {}
    /\ hostCalls' = hostCalls + 1
    /\ hostArgs' = params
    /\ hostRet' = r
    /\ hostWrote' = w
    /\ args' = IF w = -1 THEN args
               ELSE [k \in 1..Len(args) |->
                        IF (k - 1) \in lock THEN [args[k] EXCEPT !.val = w] ELSE args[k]]
    /\ pc' = "called"
    /\ UNCHANGED <<callable, args0, params, lock, result, other, notBridge>>

\* The thunk maps the result and returns; the write lock is dropped.
Return ==
    /\ pc = "called"
    /\ result' = map_result(callable.shape, hostRet)
    /\ lock' = {}
    /\ pc' = "done"
    /\ UNCHANGED <<callable, args, args0, params, hostCalls, hostArgs, hostRet, hostWrote, other, notBridge>>

\* Another holder of the (shared) value that slot 0 of a method call refers
\* to starts to read or to write it; it cannot while the thunk holds the
\* write lock.
OtherBorrow(mode) ==
    /\ pc \in {"ready", "bind", "called"}
    /\ callable.abi = "from_method"
    /\ other = "idle"
    /\ 0 \notin lock
    /\ other' = mode
    /\ UNCHANGED <<callable, args, args0, pc, params, lock, hostCalls, hostArgs,
                   hostRet, hostWrote, result, notBridge>>

\* The other holder is done.
OtherRelease ==
    /\ other # "idle"
    /\ other' = "idle"
    /\ UNCHANGED <<callable, args, args0, pc, params, lock, hostCalls, hostArgs,
                   hostRet, hostWrote, result, notBridge>>

BridgeNext ==
    \/ \E impl \in Impls, shape \in Shapes, seed \in Seeds : Register(impl, shape, seed)
    \/ \E as \in ArgLists(callable) : Invoke(as)
    \/ BindPar
    \/ \E r \in HostReturns(callable.shape), w \in HostWrites : CallHost(r, w)
    \/ Return

\* The bridge when the value of slot 0 is shared with another holder.
BridgeNextShared ==
    \/ BridgeNext
    \/ \E mode \in {"reading", "writing"} : OtherBorrow(mode)
    \/ OtherRelease

----------------------------------------------------------------------------
(* The registry of custom syntax (syntax.rs).  A string is the sequence of *)
(* its characters.                                                          *)

STR_my_stmt == <<"m", "y", "_", "s", "t", "m", "t">>

STR_my_stmt_padded == <<" ">> \o STR_my_stmt \o <<" ">>

STR_foo == <<"f", "o", "o">>

STR_if == <<"i", "f">>

STR_if_padded == <<" ", "i", "f", " ">>

STR_goto == <<"g", "o", "t", "o">>

STR_equals == <<"=">>

STR_1x == <<"1", "x">>

STR_empty == <<>>

STR_blank == <<" ", " ">>

MARKER_EXPR == <<"$", "e", "x", "p", "r", "$">>

MARKER_BLOCK == <<"$", "b", "l", "o", "c", "k", "$">>

MARKER_IDENT == <<"$", "i", "d", "e", "n", "t", "$">>

Markers == {MARKER_IDENT, MARKER_EXPR, MARKER_BLOCK}

\* str::trim: the string without its leading and trailing white space.
RECURSIVE trim_start(_)
trim_start(str) ==
    IF str # <<>> /\ str[1] = " " THEN trim_start(Tail(str)) ELSE str

RECURSIVE trim_end(_)
trim_end(str) ==
    IF str # <<>> /\ str[Len(str)] = " "
    THEN trim_end(SubSeq(str, 1, Len(str) - 1)) ELSE str

\* A trim that leaves the white space where it is.
trim_nothing(str) == str

trim(str) == trim_end(trim_start(str))

\* Token::lookup_from_syntax: the token of a standard keyword, of a reserved
\* word or of an operator symbol; None for any other text.
StandardKeywords == {STR_if}

ReservedWords == {STR_goto}

OperatorSymbols == {STR_equals}

lookup_from_syntax(str) ==
    IF str \in StandardKeywords THEN Some([token |-> "Keyword", syntax |-> str])
    ELSE IF str \in ReservedWords THEN Some([token |-> "Reserved", syntax |-> str])
    ELSE IF str \in OperatorSymbols THEN Some([token |-> "Symbol", syntax |-> str])
    ELSE None

\* Token::is_keyword
is_keyword(token) == token.token = "Keyword"

\* Token::is_reserved
is_reserved(token) == token.token = "Reserved"

AsciiLetters ==
    {"a", "b", "c", "d", "e", "f", "g", "h", "i", "j", "k", "l", "m",
     "n", "o", "p", "q", "r", "s", "t", "u", "v", "w", "x", "y", "z"}

AsciiDigits == {"0", "1", "2", "3", "4", "5", "6", "7", "8", "9"}

\* is_valid_identifier: underscores, then a letter, then letters, digits and
\* underscores; first_alphabetic tells whether the letter has been met.
RECURSIVE is_valid_identifier_from(_, _)
is_valid_identifier_from(chars, first_alphabetic) ==
    IF chars = <<>> THEN first_alphabetic
    ELSE LET ch == chars[1]
         IN  IF ch = "_" THEN is_valid_identifier_from(Tail(chars), first_alphabetic)
             ELSE IF ch \in AsciiLetters THEN is_valid_identifier_from(Tail(chars), TRUE)
             ELSE IF ~first_alphabetic THEN FALSE
             ELSE IF ch \in AsciiDigits THEN is_valid_identifier_from(Tail(chars), first_alphabetic)
             ELSE FALSE

is_valid_identifier(chars) == is_valid_identifier_from(chars, FALSE)

\* LexError::into_err(pos), through From<LexError> for ParseErrorType
into_err(lex, pos) == [type |-> "BadInput", lex |-> lex, pos |-> pos]

\* LexError::ImproperSymbol(s, "Improper symbol for custom syntax at position #n: 's'")
ImproperSymbol(str, position) ==
    [type |-> "ImproperSymbol", symbol |-> str, position |-> position]

\* A map with one entry put in, as HashMap::insert does.
MapInsert(m, k, v) == [x \in DOMAIN m \cup {k} |-> IF x = k THEN v ELSE m[x]]

EmptyMap == [x \in {} |-> None]

\* An arm order that tries "identifier in first position" before "standard
\* keyword in first position".
match_arm_identifier_first(str, token, segments_is_empty) ==
    IF str \in Markers /\ ~segments_is_empty THEN "marker"
    ELSE IF ~segments_is_empty /\ token.kind = "some" THEN "symbol"
    ELSE IF segments_is_empty /\ is_valid_identifier(str) THEN "identifier"
    ELSE IF segments_is_empty /\ token.kind = "some"
            /\ (is_keyword(token.v) \/ is_reserved(token.v)) THEN "keyword_first"
    ELSE "improper"

\* A first arm without its guard: a marker is taken in any position.
match_arm_marker_anywhere(str, token, segments_is_empty) ==
    IF str \in Markers THEN "marker"
    ELSE IF ~segments_is_empty /\ token.kind = "some" THEN "symbol"
    ELSE IF segments_is_empty /\ token.kind = "some"
            /\ (is_keyword(token.v) \/ is_reserved(token.v)) THEN "keyword_first"
    ELSE IF segments_is_empty /\ is_valid_identifier(str) THEN "identifier"
    ELSE "improper"

\* The arm of `match s` in register_custom_syntax that a segment takes.
match_arm(str, token, segments_is_empty) ==
    IF str \in Markers /\ ~segments_is_empty THEN "marker"
    ELSE IF ~segments_is_empty /\ token.kind = "some" THEN "symbol"
    ELSE IF segments_is_empty /\ token.kind = "some"
            /\ (is_keyword(token.v) \/ is_reserved(token.v)) THEN "keyword_first"
    ELSE IF segments_is_empty /\ is_valid_identifier(str) THEN "identifier"
    ELSE "improper"

\* An insertion that does not ask contains_key first.
make_custom_keyword_overwrite(disabled, keywords_map, str, token) ==
    IF str \in disabled \/ (token.kind = "some" /\ is_reserved(token.v))
    THEN MapInsert(keywords_map, str, None)
    ELSE keywords_map

\* "Make it a custom keyword/symbol if it is disabled or reserved"
make_custom_keyword(disabled, keywords_map, str, token) ==
    IF (str \in disabled \/ (token.kind = "some" /\ is_reserved(token.v)))
        /\ str \notin DOMAIN keywords_map
    THEN MapInsert(keywords_map, str, None)
    ELSE keywords_map

\* The loop `for s in keywords` of register_custom_syntax from the i-th
\* keyword on: the segments and the custom keywords at its end, or the error
\* it returned with (the custom keywords are as the loop left them).
RECURSIVE segments_loop(_, _, _, _, _)
segments_loop(disabled, keywords, i, segments, keywords_map) ==
    IF i > Len(keywords)
    THEN [err |-> None, segments |-> segments, custom_keywords |-> keywords_map]
    ELSE LET str == trim(keywords[i])
             token == lookup_from_syntax(str)
             arm == match_arm(str, token, segments = <<>>)
         IN  IF str = <<>>
             THEN segments_loop(disabled, keywords, i + 1, segments, keywords_map)
             ELSE IF arm = "marker"
             THEN segments_loop(disabled, keywords, i + 1, Append(segments, str), keywords_map)
             ELSE IF arm \in {"symbol", "identifier"}
             THEN segments_loop(disabled, keywords, i + 1, Append(segments, str),
                                make_custom_keyword(disabled, keywords_map, str, token))
             ELSE [err |-> Some(into_err(ImproperSymbol(str, Len(segments) + 1), "NONE")),
                   segments |-> segments, custom_keywords |-> keywords_map]

\* CustomSyntax
CustomSyntax(parse, func, new_vars) ==
    [parse |-> parse, func |-> func, scope_delta |-> new_vars]

\* A registration that keeps the rule a key already has.
register_custom_syntax_raw_keep(table, key, parse, new_vars, func) ==
    IF key \in DOMAIN table THEN table
    ELSE MapInsert(table, key, CustomSyntax(parse, func, new_vars))

\* Engine::register_custom_syntax_raw on the custom-syntax table
register_custom_syntax_raw(table, key, parse, new_vars, func) ==
    MapInsert(table, key, CustomSyntax(parse, func, new_vars))

\* The parsing function that register_custom_syntax constructs: it owns the
\* segments.
SegmentsParser(segments) == [kind |-> "segments", segments |-> segments]

\* A parsing function of the caller.
RawParser(id) == [kind |-> "raw", id |-> id]

\* A constructed parsing function that signals completion one segment early.
parse_call_one_short(parse, matched, look_ahead) ==
    IF parse.kind = "segments"
    THEN IF Len(matched) >= Len(parse.segments) - 1 THEN [kind |-> "Ok", v |-> None]
         ELSE [kind |-> "Ok", v |-> Some(parse.segments[Len(matched) + 1])]
    ELSE [kind |-> "Ok", v |-> None]

\* A parsing function called with the segments matched so far and the
\* look-ahead token: `move |stream, _| { ... }` for the one that
\* register_custom_syntax constructs; the one of the caller used here is
\* complete at once.
parse_call(parse, matched, look_ahead) ==
    IF parse.kind = "segments"
    THEN IF Len(matched) >= Len(parse.segments) THEN [kind |-> "Ok", v |-> None]
         ELSE [kind |-> "Ok", v |-> Some(parse.segments[Len(matched) + 1])]
    ELSE [kind |-> "Ok", v |-> None]

\* Engine::register_custom_syntax: the result and the two tables afterwards.
register_custom_syntax(disabled, keywords_map, table, keywords, new_vars, func) ==
    LET r == segments_loop(disabled, keywords, 1, <<>>, keywords_map)
    IN  IF r.err.kind = "some"
        THEN [result |-> [kind |-> "Err", err |-> r.err.v],
              custom_keywords |-> r.custom_keywords,
              custom_syntax |-> table]
        ELSE IF r.segments = <<>>
        THEN [result |-> [kind |-> "Ok"],
              custom_keywords |-> r.custom_keywords,
              custom_syntax |-> table]
        ELSE [result |-> [kind |-> "Ok"],
              custom_keywords |-> r.custom_keywords,
              custom_syntax |-> register_custom_syntax_raw(table, r.segments[1],
                                    SegmentsParser(r.segments), new_vars, func)]

\* The keyword lists register_custom_syntax is called with.
KeywordLists ==
    {<<>>,
     <<STR_empty, STR_blank>>,
     <<STR_my_stmt, MARKER_IDENT, STR_equals, MARKER_EXPR>>,
     <<STR_my_stmt_padded, STR_empty, MARKER_BLOCK>>,
     <<STR_my_stmt, STR_goto, MARKER_EXPR>>,
     <<STR_my_stmt, STR_equals, STR_1x>>,
     <<STR_my_stmt, STR_goto, STR_foo>>,
     <<STR_if>>,
     <<STR_if_padded, MARKER_EXPR>>,
     <<STR_blank, STR_if, MARKER_BLOCK>>,
     <<STR_goto, MARKER_EXPR>>,
     <<MARKER_EXPR, STR_equals, MARKER_BLOCK>>,
     <<STR_1x>>,
     <<STR_foo>>,
     <<STR_foo, STR_if, MARKER_EXPR>>}

\* The keys register_custom_syntax_raw is called with.
RawKeys == {STR_my_stmt, MARKER_EXPR}

\* (new_vars, func) of a registration.
RuleBodies == {<<1, "f1">>, <<-1, "f2">>}

\* The symbols the host has disabled, and the custom keywords it has
\* registered (as an operator of some precedence), before any custom syntax.
EngineChoices ==
    {[disabled_symbols |-> {}, custom_keywords |-> EmptyMap],
     [disabled_symbols |-> {STR_equals, STR_my_stmt},
      custom_keywords |-> MapInsert(EmptyMap, STR_goto, Some(1))]}

Tables == [custom_keywords |-> custom_keywords, custom_syntax |-> custom_syntax]

SyntaxInit ==
    /\ disabled_symbols = {}
    /\ custom_keywords = EmptyMap
    /\ custom_syntax = EmptyMap
    /\ synPre = [custom_keywords |-> EmptyMap, custom_syntax |-> EmptyMap]
    /\ synOp = [op |-> "new"]
    /\ synRet = [kind |-> "Ok"]

Idle == [pc |-> "idle", key |-> <<>>]

\* No parse callback has been called.
NoCall == [kind |-> "none"]

\* The parser is in no custom syntax.
ParserInit ==
    /\ parsing = Idle
    /\ stream = <<>>
    /\ expected = NoCall

\* An engine as the host has set it up.
SyntaxInitAny ==
    /\ \E e \in EngineChoices :
          /\ disabled_symbols = e.disabled_symbols
          /\ custom_keywords = e.custom_keywords
    /\ custom_syntax = EmptyMap
    /\ synPre = [custom_keywords |-> custom_keywords, custom_syntax |-> EmptyMap]
    /\ synOp = [op |-> "new"]
    /\ synRet = [kind |-> "Ok"]

RegisterCustomSyntax(keywords, new_vars, func) ==
    LET r == register_custom_syntax(disabled_symbols, custom_keywords, custom_syntax,
                                    keywords, new_vars, func)
    IN  /\ parsing.pc = "idle"
        /\ synPre' = Tables
        /\ synOp' = [op |-> "register", keywords |-> keywords,
                     new_vars |-> new_vars, func |-> func]
        /\ custom_keywords' = r.custom_keywords
        /\ custom_syntax' = r.custom_syntax
        /\ synRet' = r.result
        /\ UNCHANGED <<disabled_symbols, notSyntax, parserVars>>

RegisterCustomSyntaxRaw(key, parse, new_vars, func) ==
    /\ parsing.pc = "idle"
    /\ synPre' = Tables
    /\ synOp' = [op |-> "register_raw", key |-> key, parse |-> parse,
                 new_vars |-> new_vars, func |-> func]
    /\ custom_syntax' = register_custom_syntax_raw(custom_syntax, key, parse, new_vars, func)
    /\ synRet' = [kind |-> "Ok"]
    /\ UNCHANGED <<disabled_symbols, custom_keywords, notSyntax, parserVars>>

SyntaxNext ==
    \/ \E keywords \in KeywordLists, b \in RuleBodies :
          RegisterCustomSyntax(keywords, b[1], b[2])
    \/ \E key \in RawKeys, b \in RuleBodies :
          RegisterCustomSyntaxRaw(key, RawParser("p1"), b[1], b[2])

\* The parser in a custom syntax, as the parser contract has it: with the key
\* matched it asks the rule's parse callback, again and again, what comes
\* next; Some(x): it matches x against the input and goes on, None: the rule
\* is complete.
LookAheads == {STR_equals, STR_foo}

\* What the parser puts on the stream for a segment it has matched: the
\* identifier it read for $ident$, the segment itself otherwise.
Matched(segment) == IF segment = MARKER_IDENT THEN STR_foo ELSE segment

\* The parser has read a token that is the key of a rule.
StartParse(key) ==
    /\ parsing.pc = "idle"
    /\ key \in DOMAIN custom_syntax
    /\ parsing' = [pc |-> "matching", key |-> key]
    /\ stream' = <<key>>
    /\ expected' = NoCall
    /\ UNCHANGED <<scopeVars, bridgeVars, syntaxVars, mapVars>>

\* One round of the loop: the callback is asked; the input has what it asks
\* for (fits) or has not.
ParseStep(look_ahead, fits) ==
    /\ parsing.pc = "matching"
    /\ LET r == parse_call(custom_syntax[parsing.key].parse, stream, look_ahead)
       IN  /\ expected' = r
           /\ IF r.kind = "Ok" /\ r.v.kind = "some"
              THEN IF fits
                   THEN /\ stream' = Append(stream, Matched(r.v.v))
                        /\ UNCHANGED parsing
                   ELSE /\ parsing' = [parsing EXCEPT !.pc = "aborted"]
                        /\ UNCHANGED stream
              ELSE /\ parsing' = [parsing EXCEPT !.pc =
                                     IF r.kind = "Ok" THEN "complete" ELSE "aborted"]
                   /\ UNCHANGED stream
    /\ UNCHANGED <<scopeVars, bridgeVars, syntaxVars, mapVars>>

\* The parser has left the custom syntax.
EndParse ==
    /\ parsing.pc \in {"complete", "aborted"}
    /\ parsing' = Idle
    /\ stream' = <<>>
    /\ expected' = NoCall
    /\ UNCHANGED <<scopeVars, bridgeVars, syntaxVars, mapVars>>

\* The keyword lists of the rules the parser is run on.
ParseLists ==
    {<<STR_my_stmt, MARKER_IDENT, STR_equals, MARKER_EXPR>>,
     <<STR_my_stmt_padded, STR_empty, MARKER_BLOCK>>,
     <<STR_foo>>,
     <<STR_foo, STR_if, MARKER_EXPR>>,
     <<STR_if, MARKER_EXPR>>}

ParserNext ==
    \/ \E keywords \in ParseLists : RegisterCustomSyntax(keywords, 1, "f1")
    \/ RegisterCustomSyntaxRaw(STR_my_stmt, RawParser("p1"), 1, "f1")
    \/ \E key \in DOMAIN custom_syntax : StartParse(key)
    \/ \E look_ahead \in LookAheads, fits \in BOOLEAN : ParseStep(look_ahead, fits)
    \/ EndParse

----------------------------------------------------------------------------
(* Object maps (map_basic.rs); Map = BTreeMap<Identifier, Dynamic>. *)

STR_a == <<"a">>

STR_ab == <<"a", "b">>

STR_b == <<"b">>

STR_c == <<"c">>

\* The keys of the maps of the model.
MapKeys == {STR_a, STR_ab, STR_b, STR_c}

\* Ord of the characters of the keys.
CharRank(ch) == CASE ch = "a" -> 1 [] ch = "b" -> 2 [] ch = "c" -> 3

\* Ord for Identifier: the lexicographic order of strings.
RECURSIVE StrLess(_, _)
StrLess(s, t) ==
    IF t = <<>> THEN FALSE
    ELSE IF s = <<>> THEN TRUE
    ELSE IF CharRank(s[1]) # CharRank(t[1]) THEN CharRank(s[1]) < CharRank(t[1])
    ELSE StrLess(Tail(s), Tail(t))

\* BTreeMap::iter / into_iter: the entries (key, value) in the order of their
\* keys.
RECURSIVE btree_iter(_)
btree_iter(m) ==
    IF DOMAIN m = {} THEN <<>>
    ELSE LET first == CHOOSE k \in DOMAIN m : \A j \in DOMAIN m : j = k \/ StrLess(k, j)
         IN  <<<<first, m[first]>>>> \o btree_iter([k \in DOMAIN m \ {first} |-> m[k]])

\* The keys from the last entry to the first.
keys_descending(m) ==
    LET entries == btree_iter(m)
    IN  [i \in 1..Len(entries) |-> entries[Len(entries) + 1 - i][1]]

\* map_functions::indexing::keys
keys(m) ==
    LET entries == btree_iter(m)
    IN  [i \in 1..Len(entries) |-> entries[i][1]]

\* map_functions::indexing::values
map_values(m) ==
    LET entries == btree_iter(m)
    IN  [i \in 1..Len(entries) |-> entries[i][2]]

\* Extend for BTreeMap: each item is inserted; the value of a key that is
\* there is replaced.
RECURSIVE map_extend(_, _)
map_extend(m, items) ==
    IF items = <<>> THEN m
    ELSE map_extend(MapInsert(m, items[1][1], items[1][2]), Tail(items))

\* map_functions::mixin
mixin(m, m2) == map_extend(m, btree_iter(m2))

\* map_functions::merge
merge(m, m2) == map_extend(m, btree_iter(m2))

\* An insertion that replaces the value of a key that is there.
or_insert_always(m, k, v) == MapInsert(m, k, v)

\* map.entry(key).or_insert(value)
or_insert(m, k, v) == IF k \in DOMAIN m THEN m ELSE MapInsert(m, k, v)

\* map_functions::fill_with: for_each over the entries of map2
RECURSIVE fill_with_each(_, _)
fill_with_each(m, items) ==
    IF items = <<>> THEN m
    ELSE fill_with_each(or_insert(m, items[1][1], items[1][2]), Tail(items))

fill_with(m, m2) == fill_with_each(m, btree_iter(m2))

\* A map of the given entries, inserted in the order given.
MapOf(items) == map_extend(EmptyMap, items)

\* The object map literals of the scripts: #{}, #{a: 1, b: 2, c: 3} of
\* test_for_object, and maps that share keys with it.
MapLiterals ==
    {EmptyMap,
     MapOf(<<<<STR_a, 1>>, <<STR_b, 2>>, <<STR_c, 3>>>>),
     MapOf(<<<<STR_c, 1>>, <<STR_ab, 2>>>>),
     MapOf(<<<<STR_b, 3>>, <<STR_ab, 1>>, <<STR_a, 2>>>>)}

Unit == [kind |-> "unit"]

NoLoop == [pc |-> "idle", array |-> <<>>, i |-> 0, keys |-> <<>>, sum |-> 0, result |-> 0]

MapInit ==
    /\ mapVar = EmptyMap
    /\ map2Var = EmptyMap
    /\ mapPre = [map |-> EmptyMap, map2 |-> EmptyMap]
    /\ mapOp = [op |-> "new"]
    /\ mapRet = Unit
    /\ forLoop = NoLoop

\* A statement of the script outside the loops: m is the first map after it,
\* r what the function returned.
MapReturned(op, m, r) ==
    /\ forLoop.pc = "idle"
    /\ mapPre' = [map |-> mapVar, map2 |-> map2Var]
    /\ mapOp' = [op |-> op]
    /\ mapVar' = m
    /\ mapRet' = r
    /\ UNCHANGED <<map2Var, forLoop, notMap>>

\* let map = #{ ... };
LetMap(m) == MapReturned("let", m, Unit)

\* let map2 = #{ ... };
LetMap2(m) ==
    /\ forLoop.pc = "idle"
    /\ mapPre' = [map |-> mapVar, map2 |-> map2Var]
    /\ mapOp' = [op |-> "let2"]
    /\ map2Var' = m
    /\ mapRet' = Unit
    /\ UNCHANGED <<mapVar, forLoop, notMap>>

\* map.keys()
Keys == MapReturned("keys", mapVar, [kind |-> "array", v |-> keys(mapVar)])

\* map.values()
Values == MapReturned("values", mapVar, [kind |-> "array", v |-> map_values(mapVar)])

\* map += map2, map.mixin(map2): map2 is handed over by value
Mixin == MapReturned("mixin", mixin(mapVar, map2Var), Unit)

\* map + map2: both maps are handed over by value
Merge == MapReturned("merge", mapVar, [kind |-> "map", v |-> merge(mapVar, map2Var)])

\* map.fill_with(map2): map2 is handed over by value
FillWith == MapReturned("fill_with", fill_with(mapVar, map2Var), Unit)

\* test_for_object: for key in map.keys() { keys += key; }
ForKeys ==
    /\ forLoop.pc = "idle"
    /\ forLoop' = [NoLoop EXCEPT !.pc = "keys", !.array = keys(mapVar)]
    /\ UNCHANGED <<mapVar, map2Var, mapPre, mapOp, mapRet, notMap>>

\* test_for_object: for value in map.values() { sum += value; }
ForValues ==
    /\ forLoop.pc = "keys"
    /\ forLoop.i = Len(forLoop.array)
    /\ forLoop' = [forLoop EXCEPT !.pc = "values", !.array = map_values(mapVar), !.i = 0]
    /\ UNCHANGED <<mapVar, map2Var, mapPre, mapOp, mapRet, notMap>>

\* One round of the loop the script is in.
ForStep ==
    /\ forLoop.pc \in {"keys", "values"}
    /\ forLoop.i < Len(forLoop.array)
    /\ forLoop' =
          IF forLoop.pc = "keys"
          THEN [forLoop EXCEPT !.keys = forLoop.keys \o forLoop.array[forLoop.i + 1],
                               !.i = forLoop.i + 1]
          ELSE [forLoop EXCEPT !.sum = forLoop.sum + forLoop.array[forLoop.i + 1],
                               !.i = forLoop.i + 1]
    /\ UNCHANGED <<mapVar, map2Var, mapPre, mapOp, mapRet, notMap>>

\* test_for_object: keys.len + sum
ScriptEnd ==
    /\ forLoop.pc = "values"
    /\ forLoop.i = Len(forLoop.array)
    /\ forLoop' = [forLoop EXCEPT !.pc = "done", !.result = Len(forLoop.keys) + forLoop.sum]
    /\ UNCHANGED <<mapVar, map2Var, mapPre, mapOp, mapRet, notMap>>

\* The script is run again.
ScriptAgain ==
    /\ forLoop.pc = "done"
    /\ forLoop' = NoLoop
    /\ UNCHANGED <<mapVar, map2Var, mapPre, mapOp, mapRet, notMap>>

MapNext ==
    \/ \E m \in MapLiterals : LetMap(m)
    \/ \E m \in MapLiterals : LetMap2(m)
    \/ Keys
    \/ Values
    \/ Mixin
    \/ Merge
    \/ FillWith
    \/ ForKeys
    \/ ForValues
    \/ ForStep
    \/ ScriptEnd
    \/ ScriptAgain

----------------------------------------------------------------------------
(* Spec: the Scope under its public operations. *)

ExtendPairs == {<<n, d>> : n \in ScopeNames, d \in Dynamics}

\* The iterators handed to extend: no item, one item or two items.
ExtendItems ==
    {<<>>} \cup {<<p>> : p \in ExtendPairs} \cup {<<p, q>> : p \in ExtendPairs, q \in ExtendPairs}

ScopeInit ==
    /\ values = <<>>
    /\ names = <<>>
    /\ pre = new
    /\ lastOp = [op |-> "new"]
    /\ ret = RetSelf
    /\ marked = NoMark

ScopeNext ==
    \/ \E n \in ScopeNames, v \in IntVals : Push(n, v)
    \/ \E n \in ScopeNames, d \in Dynamics : PushDynamic(n, d)
    \/ \E n \in ScopeNames, v \in IntVals : PushConstant(n, v)
    \/ \E n \in ScopeNames, d \in Dynamics : PushConstantDynamic(n, d)
    \/ \E size \in 0..(MaxLen + 1) : Rewind(size)
    \/ Clear
    \/ \E n \in ScopeNames, v \in IntVals : SetValue(n, v)
    \/ \E n \in ScopeNames, d \in Dynamics : GetMutWrite(n, d)
    \/ CloneVisible
    \/ \E items \in ExtendItems : Extend(items)

Init == ScopeInit /\ BridgeInit /\ SyntaxInit /\ ParserInit /\ MapInit

Next == ScopeNext

Spec == Init /\ [][Next]_vars

----------------------------------------------------------------------------
(* SpecAll: every operation of the Scope, add_entry_alias included, over a *)
(* smaller alphabet of values.                                             *)

OneVal == {10}

OneValDynamics == {Dyn("int", v, a) : v \in OneVal, a \in AccessModes}

OnePairs == {<<n, d>> : n \in ScopeNames, d \in OneValDynamics}

OneExtendItems ==
    {<<>>} \cup {<<p>> : p \in OnePairs} \cup {<<p, q>> : p \in OnePairs, q \in OnePairs}

ScopeNextAll ==
    \/ \E n \in ScopeNames, v \in OneVal : Push(n, v)
    \/ \E n \in ScopeNames, d \in OneValDynamics : PushDynamic(n, d)
    \/ \E n \in ScopeNames, v \in OneVal : PushConstant(n, v)
    \/ \E n \in ScopeNames, d \in OneValDynamics : PushConstantDynamic(n, d)
    \/ \E size \in 0..(MaxLen + 1) : Rewind(size)
    \/ Clear
    \/ \E n \in ScopeNames, v \in OneVal : SetValue(n, v)
    \/ \E n \in ScopeNames, d \in OneValDynamics : GetMutWrite(n, d)
    \/ CloneVisible
    \/ \E items \in OneExtendItems : Extend(items)
    \/ \E index \in 0..(MaxLen - 1), alias \in AliasNames : AddEntryAlias(index, alias)

NextAll == ScopeNextAll

SpecAll == Init /\ [][NextAll]_vars

\* SpecBlock: blocks that record the Scope's length, push and rewind.
ScopeNextBlock ==
    \/ \E n \in ScopeNames, v \in IntVals : Push(n, v)
    \/ \E n \in ScopeNames, v \in IntVals : PushConstant(n, v)
    \/ \E size \in 0..(MaxLen + 1) : Rewind(size)
    \/ \E n \in ScopeNames, v \in IntVals : SetValue(n, v)
    \/ Mark

NextBlock == ScopeNextBlock

SpecBlock == Init /\ [][NextBlock]_vars

\* SpecTyped: a Scope with values of two types, and typed lookups.
ScopeNextTyped ==
    \/ \E n \in ScopeNames, d \in TypedDynamics : PushDynamic(n, d)
    \/ \E size \in 0..(MaxLen + 1) : Rewind(size)
    \/ \E n \in ScopeNames, T \in ValueTypes : GetValue(n, T)

NextTyped == ScopeNextTyped

SpecTyped == Init /\ [][NextTyped]_vars

\* SpecAlias: bindings are pushed and cleared and get aliases of two names.
TwoAliasNames == {"a", "b"}

ScopeNextAlias ==
    \/ \E n \in ScopeNames, v \in OneVal : Push(n, v)
    \/ \E n \in ScopeNames, v \in OneVal : PushConstant(n, v)
    \/ Clear
    \/ \E index \in 0..(MaxLen - 1), alias \in TwoAliasNames : AddEntryAlias(index, alias)

NextAlias == ScopeNextAlias

SpecAlias == Init /\ [][NextAlias]_vars

\* SpecSnapshot: bindings of values of two types, variables and constants,
\* are pushed and dropped, and the Scope is cloned.
ScopeNextSnapshot ==
    \/ \E n \in ScopeNames, d \in TypedDynamics : PushDynamic(n, d)
    \/ \E n \in ScopeNames, d \in TypedDynamics : PushConstantDynamic(n, d)
    \/ \E size \in 0..(MaxLen + 1) : Rewind(size)
    \/ CloneVisible

NextSnapshot == ScopeNextSnapshot

SpecSnapshot == Init /\ [][NextSnapshot]_vars

\* SpecMap: scripts that build object maps, combine them and loop over them.
NextMap == MapNext

SpecMap == Init /\ [][NextMap]_vars

\* SpecBridge: one native function is registered and its thunk invoked once.
NextBridge == BridgeNext

SpecBridge == Init /\ [][NextBridge]_vars

\* SpecShared: as SpecBridge, with the value of the first slot of a method
\* call shared with another holder that reads or writes it at times.
NextShared == BridgeNextShared

SpecShared == Init /\ [][NextShared]_vars

\* SpecSyntax: registrations of custom syntax on an engine set up by the host.
InitSyntax == ScopeInit /\ BridgeInit /\ SyntaxInitAny /\ ParserInit /\ MapInit

NextSyntax == SyntaxNext

SpecSyntax == InitSyntax /\ [][NextSyntax]_vars

\* SpecParse: registrations, and the parser in the rules they installed.
NextParse == ParserNext

SpecParse == InitSyntax /\ [][NextParse]_vars

----------------------------------------------------------------------------
(* Properties of the Scope. *)

\* The 1-based positions of the bindings of a name.
Positions(sc, name) == {k \in 1..Len(sc.names) : sc.names[k].name = name}

MaxOf(S) == CHOOSE m \in S : \A k \in S : k <= m

MinOf(S) == CHOOSE m \in S : \A k \in S : m <= k

\* Name lookup on sc gives the binding at the highest position with that name.
ResolvesToLatest(sc, name) ==
    LET ps == Positions(sc, name)
    IN  IF ps = {}
        THEN /\ ~contains(sc, name)
             /\ get_index(sc, name) = None
             /\ get_value(sc, name, "int") = None
             /\ get_mut(sc, name) = None
        ELSE LET top == MaxOf(ps)
             IN  /\ contains(sc, name)
                 /\ get_index(sc, name) =
                        Some([index |-> top - 1, access |-> sc.values[top].access])
                 /\ get_value(sc, name, "int") = Some(sc.values[top].val)
                 /\ get_mut(sc, name) =
                        IF sc.values[top].access = "ReadWrite" THEN Some(top - 1) ELSE None

\* j is the position of a binding of name that shadows an older one, and the
\* last call was rewind to the length before the push of that binding.
RewoundBelow(name, j) ==
    /\ lastOp.op = "rewind"
    /\ j \in Positions(pre, name)
    /\ \E i \in Positions(pre, name) : i < j
    /\ lastOp.size = j - 1

\* C1: in every reachable Scope, contains, get_index, get_value and get_mut
\* resolve a name to its binding at the highest index; and a rewind to the
\* length before the push of a shadowing binding makes get_value return the
\* value of the binding it shadowed.
C1_Shadowing ==
    /\ \A name \in ScopeNames : ResolvesToLatest(Self, name)
    /\ \A name \in ScopeNames : \A j \in 1..Len(pre.names) :
          RewoundBelow(name, j) =>
              LET i == MaxOf({k \in Positions(pre, name) : k < j})
              IN  get_value(Self, name, "int") = Some(pre.values[i].val)

\* x = 10 was shadowed by the constant x = 20, and rewind(1) has made 10
\* visible again.
C1_Witness ==
    /\ RewoundBelow("x", 2)
    /\ pre.values[1] = Dyn("int", 10, "ReadWrite")
    /\ pre.values[2] = Dyn("int", 20, "ReadOnly")
    /\ get_value(pre, "x", "int") = Some(20)
    /\ get_value(Self, "x", "int") = Some(10)

\* C2: the values array and the names array have the same length, in the
\* Scope, in the Scope before the last call, and in a Scope that
\* clone_visible returned.
C2_SameLength ==
    /\ Len(values) = Len(names)
    /\ Len(pre.values) = Len(pre.names)
    /\ ret.kind = "scope" => Len(ret.v.values) = Len(ret.v.names)

\* A Scope of three entries, one of them aliased, after a rewind that cut it.
C2_Witness ==
    /\ lastOp.op = "rewind"
    /\ Len(pre.values) = 3
    /\ Len(values) = 2
    /\ \E k \in 1..2 : names[k].alias # <<>>

\* C3: a ReadOnly binding that is still in the Scope after a call has the
\* name, value and access mode it had before the call, whatever the call.
C3_ConstantKept ==
    \A k \in 1..Len(pre.values) :
        (pre.values[k].access = "ReadOnly" /\ k <= Len(values)) =>
            /\ values[k] = pre.values[k]
            /\ names[k].name = pre.names[k].name

\* get_mut on a name whose latest binding is a constant gave no handle, so the
\* write of another value did not happen; or set_value went to the binding
\* that shadows the constant.
C3_Witness ==
    \/ /\ lastOp.op = "get_mut"
       /\ ret = None
       /\ \E k \in 1..Len(pre.values) :
            /\ pre.names[k].name = lastOp.name
            /\ pre.values[k].access = "ReadOnly"
            /\ pre.values[k].val # lastOp.value.val
            /\ values[k] = pre.values[k]
    \/ /\ lastOp.op = "set_value"
       /\ ret = RetSelf
       /\ Len(values) = Len(pre.values)
       /\ \E k \in 1..Len(pre.values) :
            /\ pre.names[k].name = lastOp.name
            /\ pre.values[k].access = "ReadOnly"
            /\ pre.values[k].val # lastOp.value
            /\ values[k] = pre.values[k]

\* The latest binding of the name was ReadOnly when set_value was called.
SetValueOnConstant ==
    /\ lastOp.op = "set_value"
    /\ get_index(pre, lastOp.name).kind = "some"
    /\ get_index(pre, lastOp.name).v.access = "ReadOnly"

\* C4: set_value on a name whose latest binding is ReadOnly panics and leaves
\* both arrays of the Scope as they were.
C4_SetValueConstantPanics ==
    SetValueOnConstant => (ret = RetPanic /\ Self = pre)

\* set_value("x", 10) on a Scope whose latest x is the constant 20.
C4_Witness ==
    /\ SetValueOnConstant
    /\ ret = RetPanic
    /\ pre.values[Len(pre.values)].val # lastOp.value
    /\ Len(values) >= 2

\* Every binding of the Scope before the call is in the Scope, at its index,
\* with its name, aliases, value and access mode.
PreKept ==
    /\ Len(values) >= Len(pre.values)
    /\ Len(names) >= Len(pre.names)
    /\ \A k \in 1..Len(pre.values) : values[k] = pre.values[k]
    /\ \A k \in 1..Len(pre.names) : names[k] = pre.names[k]

\* The Dynamic that the last push put into the Scope.
Pushed ==
    IF lastOp.op = "push" THEN Dyn("int", lastOp.value, "ReadWrite")
    ELSE IF lastOp.op = "push_constant" THEN Dyn("int", lastOp.value, "ReadOnly")
    ELSE IF lastOp.op = "push_dynamic" THEN lastOp.value
    ELSE [lastOp.value EXCEPT !.access = "ReadOnly"]

\* C15: after push, push_constant, push_dynamic or push_constant_dynamic the
\* Scope is one binding longer, the new binding is the last one, and every
\* binding it had is where it was, with its name, aliases, value and access
\* mode, whether or not one of them has the name that was pushed.
C15_PushAppends ==
    lastOp.op \in PushOps =>
        /\ Len(values) = Len(pre.values) + 1
        /\ Len(names) = Len(pre.names) + 1
        /\ PreKept
        /\ names[Len(names)] = [name |-> lastOp.name, alias |-> <<>>]
        /\ values[Len(values)] = Pushed

\* A push of another value under the name of an aliased constant.
C15_Witness ==
    /\ lastOp.op \in PushOps
    /\ Len(pre.values) = 2
    /\ \E k \in 1..2 :
          /\ pre.names[k].name = lastOp.name
          /\ pre.names[k].alias # <<>>
          /\ pre.values[k].access = "ReadOnly"
          /\ pre.values[k] # Pushed
          /\ values[k] = pre.values[k]
    /\ Len(values) = 3

Min(a, b) == IF a <= b THEN a ELSE b

\* The last call was a rewind to the length a block had recorded, and only
\* pushes were made in between.
RewoundToMark ==
    /\ lastOp.op = "rewind"
    /\ lastOp.mark.kind = "some"
    /\ lastOp.size = Len(lastOp.mark.v.values)

\* C16: rewind(n) leaves the first min(n, len) bindings, each as it was and
\* where it was, and nothing when n >= len is cut; and a rewind to a length
\* that was recorded, with only pushes in between, leaves the Scope that was
\* there when the length was recorded, so every name resolves as it did then.
C16_RewindRestores ==
    /\ lastOp.op = "rewind" =>
          LET m == Min(lastOp.size, Len(pre.values))
          IN  /\ values = SubSeq(pre.values, 1, m)
              /\ names = SubSeq(pre.names, 1, m)
              /\ lastOp.size >= Len(pre.values) => Self = pre
    /\ RewoundToMark =>
          /\ Self = lastOp.mark.v
          /\ \A name \in ScopeNames :
                get_value(Self, name, "int") = get_value(lastOp.mark.v, name, "int")

\* The block recorded the length 1 with x = 10 in the Scope, pushed the
\* constant x = 20 and y, and rewind(1) has made x = 10 visible again.
C16_Witness ==
    /\ RewoundToMark
    /\ lastOp.size = 1
    /\ Len(pre.values) = 3
    /\ pre.names[2].name = "x"
    /\ pre.names[3].name = "y"
    /\ get_value(lastOp.mark.v, "x", "int") = Some(10)
    /\ get_value(pre, "x", "int") = Some(20)
    /\ get_value(Self, "x", "int") = Some(10)
    /\ get_value(Self, "y", "int") = None

\* C17: set_value(name, v) on a Scope whose latest binding of name is
\* ReadWrite replaces the value of that binding by v and leaves the length,
\* the names and every other value as they were; on a Scope with no binding
\* of name it appends the ReadWrite binding (name, v) and leaves the others
\* as they were.
C17_SetValue ==
    lastOp.op = "set_value" =>
        LET ps == Positions(pre, lastOp.name)
        IN  IF ps = {}
            THEN /\ ret = RetSelf
                 /\ Len(values) = Len(pre.values) + 1
                 /\ PreKept
                 /\ names[Len(names)] = [name |-> lastOp.name, alias |-> <<>>]
                 /\ values[Len(values)] = Dyn("int", lastOp.value, "ReadWrite")
            ELSE pre.values[MaxOf(ps)].access = "ReadWrite" =>
                 /\ ret = RetSelf
                 /\ names = pre.names
                 /\ Len(values) = Len(pre.values)
                 /\ values[MaxOf(ps)] = Dyn("int", lastOp.value, "ReadWrite")
                 /\ \A k \in 1..Len(pre.values) :
                       k # MaxOf(ps) => values[k] = pre.values[k]

\* set_value("x", 20) on a Scope with x = 10 at the positions 1 and 3: the
\* one at 3 is 20 now, the one at 1 is 10 still.
C17_Witness ==
    /\ lastOp.op = "set_value"
    /\ lastOp.name = "x"
    /\ lastOp.value = 20
    /\ Positions(pre, "x") = {1, 3}
    /\ pre.values[1] = Dyn("int", 10, "ReadWrite")
    /\ pre.values[3] = Dyn("int", 10, "ReadWrite")
    /\ values[1] = Dyn("int", 10, "ReadWrite")
    /\ values[3] = Dyn("int", 20, "ReadWrite")

\* C18: get_mut(name) returns None exactly when the Scope has no binding of
\* name or the latest one is ReadOnly, whatever the older ones are; otherwise
\* it returns the handle of the slot of the latest binding, and what is
\* written through the handle is in that slot, is what get_value(name)
\* returns next, and changes no other slot.
C18_GetMut ==
    lastOp.op = "get_mut" =>
        LET ps == Positions(pre, lastOp.name)
        IN  /\ ret = None <=> (ps = {} \/ pre.values[MaxOf(ps)].access = "ReadOnly")
            /\ ret = None => Self = pre
            /\ ret # None =>
                  /\ ret = Some(MaxOf(ps) - 1)
                  /\ values[MaxOf(ps)] = lastOp.value
                  /\ get_value(Self, lastOp.name, lastOp.value.type) =
                        Some(lastOp.value.val)
                  /\ names = pre.names
                  /\ \A k \in 1..Len(pre.values) :
                        k # MaxOf(ps) => values[k] = pre.values[k]

\* get_mut("x") on a Scope whose older x is a constant and whose latest x is
\* ReadWrite: the write of 20 went to the latest.
C18_Witness ==
    /\ lastOp.op = "get_mut"
    /\ lastOp.name = "x"
    /\ lastOp.value.val = 20
    /\ Positions(pre, "x") = {1, 2}
    /\ pre.values[1] = Dyn("int", 10, "ReadOnly")
    /\ pre.values[2] = Dyn("int", 10, "ReadWrite")
    /\ ret = Some(1)
    /\ get_value(Self, "x", "int") = Some(20)
    /\ values[1] = pre.values[1]

\* C19: get_value::<T>(name) returns the value of the latest binding of name
\* when that value is of type T, None when the Scope has no binding of name
\* and None when the latest binding is of another type, also when an older
\* one is of type T; and the Scope is as it was.
C19_GetValue ==
    lastOp.op = "get_value" =>
        LET ps == Positions(pre, lastOp.name)
        IN  /\ Self = pre
            /\ ret = IF ps = {} THEN None
                     ELSE IF pre.values[MaxOf(ps)].type = lastOp.type
                     THEN Some(pre.values[MaxOf(ps)].val)
                     ELSE None

\* get_value::<int>("x") on a Scope whose older x is the int 10 and whose
\* latest x is a string: None.
C19_Witness ==
    /\ lastOp.op = "get_value"
    /\ lastOp.name = "x"
    /\ lastOp.type = "int"
    /\ Positions(pre, "x") = {1, 2}
    /\ pre.values[1].type = "int"
    /\ pre.values[2].type = "str"
    /\ ret = None

\* C20: the Scope that clone_visible returns has one binding for each name
\* that has a binding in the original and none for any other name; that
\* binding has the value, the access mode and the aliases of the latest
\* original binding of the name; and the original is as it was.
C20_CloneVisible ==
    lastOp.op = "clone_visible" =>
        /\ Self = pre
        /\ \A k \in 1..Len(ret.v.names) : ret.v.names[k].name \in ScopeNames
        /\ \A name \in ScopeNames :
              LET ps == Positions(pre, name)
                  cs == Positions(ret.v, name)
              IN  IF ps = {} THEN cs = {}
                  ELSE /\ Cardinality(cs) = 1
                       /\ \A c \in cs :
                             /\ ret.v.values[c] = pre.values[MaxOf(ps)]
                             /\ ret.v.names[c] = pre.names[MaxOf(ps)]

\* clone_visible of a Scope of three bindings, two of them of x, the latest
\* of which is aliased: the clone has two bindings.
C20_Witness ==
    /\ lastOp.op = "clone_visible"
    /\ Positions(pre, "x") = {1, 3}
    /\ pre.names[3].alias # <<>>
    /\ pre.names[1].alias = <<>>
    /\ Len(ret.v.values) = 2
    /\ \E c \in 1..2 : ret.v.names[c] = pre.names[3]

\* No two bindings of the Scope have the same name.
DistinctNames(sc) ==
    \A i, j \in 1..Len(sc.names) : sc.names[i].name = sc.names[j].name => i = j

\* C21: in the Scope that clone_visible returns, two bindings stand in the
\* order in which the latest original bindings of their names stand; and the
\* clone of a Scope in which no two bindings share a name is that Scope.
C21_CloneVisibleKeepsOrder ==
    lastOp.op = "clone_visible" =>
        /\ \A n1, n2 \in ScopeNames :
              (Positions(pre, n1) # {} /\ Positions(pre, n2) # {}
                 /\ MaxOf(Positions(pre, n1)) < MaxOf(Positions(pre, n2))) =>
                  \A c1 \in Positions(ret.v, n1), c2 \in Positions(ret.v, n2) : c1 < c2
        /\ DistinctNames(pre) => ret.v = pre

\* iter_raw and iter yield one triple for each binding, the shadowed ones
\* too, oldest first, with the name and the value of the binding.
OneTriplePerBinding ==
    /\ Len(iter_raw(Self)) = Len(values)
    /\ Len(iter(Self)) = Len(values)
    /\ \A k \in 1..Len(values) :
          /\ iter_raw(Self)[k].name = names[k].name
          /\ iter_raw(Self)[k].value = values[k]
          /\ iter(Self)[k].name = names[k].name
          /\ iter(Self)[k].value = values[k]
          /\ iter(Self)[k].constant = iter_raw(Self)[k].constant

\* The binding that the last call put into the Scope is reported with the
\* access mode it was inserted with: constant for push_constant,
\* push_constant_dynamic and push_dynamic of a read-only value, not constant
\* for push and for a binding that set_value created.
InsertedAsReported ==
    /\ lastOp.op \in PushOps =>
          iter_raw(Self)[Len(values)].constant = (Pushed.access = "ReadOnly")
    /\ (lastOp.op = "set_value" /\ Len(values) = Len(pre.values) + 1) =>
          iter_raw(Self)[Len(values)].constant = FALSE

\* The bindings that were in the Scope before the last call and are in it
\* still.
Staying == 1..Min(Len(pre.values), Len(values))

\* C22 as written: a triple for each binding in push order, is_constant as
\* the binding was inserted: as reported when it is put in, and the same
\* after every call for as long as the binding stays.
C22_ConstantAsInserted ==
    /\ OneTriplePerBinding
    /\ InsertedAsReported
    /\ \A k \in Staying : iter_raw(Self)[k].constant = iter_raw(pre)[k].constant

\* C22 as amended: a triple for each binding in push order, is_constant as
\* the access mode of the value now in the slot; that is the mode at
\* insertion unless a read-only value was written into the slot of a
\* ReadWrite binding through the handle of get_mut, and then it is constant.
C22_ConstantAsValueNow ==
    /\ OneTriplePerBinding
    /\ InsertedAsReported
    /\ \A k \in 1..Len(values) :
          iter_raw(Self)[k].constant = (values[k].access = "ReadOnly")
    /\ \A k \in Staying :
          iter_raw(Self)[k].constant # iter_raw(pre)[k].constant =>
              /\ lastOp.op = "get_mut"
              /\ ret = Some(k - 1)
              /\ lastOp.value.access = "ReadOnly"
              /\ ~iter_raw(pre)[k].constant
              /\ iter_raw(Self)[k].constant

\* Three bindings, the first two of x; a read-only value was written through
\* get_mut("x") into the second, which is reported constant now, the first
\* is not.
C22_Witness ==
    /\ lastOp.op = "get_mut"
    /\ lastOp.name = "x"
    /\ ret = Some(1)
    /\ Len(values) = 3
    /\ names[1].name = "x"
    /\ ~iter_raw(pre)[2].constant
    /\ iter_raw(Self)[2].constant
    /\ ~iter_raw(Self)[1].constant
    /\ iter(Self)[3].name = "y"

----------------------------------------------------------------------------
(* Properties of the registration thunks. *)

\* The 1-based positions of the parameters converted so far by by_value.
ByValueDone == {k \in 1..Len(params) : ~IsByRef(callable.abi, k)}

\* C5 as written: after the by_value conversion of a slot, whatever the
\* parameter type, the slot holds the unit placeholder.
C5_EverySlotTaken ==
    \A k \in ByValueDone : args[k] = UNIT

\* C5 as amended: after the by_value conversion of a slot the slot holds the
\* unit placeholder and not the original value, unless the parameter type is
\* &str: then the slot still holds the original text.
C5_SlotTakenUnlessStrRef ==
    \A k \in ByValueDone :
        IF params[k].type = "&str"
        THEN args[k] = args0[k]
        ELSE args[k] = UNIT /\ args[k] # args0[k]

\* All four parameter types have been converted by value: three slots are
\* unit, the &str slot keeps its text.
C5_Witness ==
    /\ callable.abi = "from_pure"
    /\ \A T \in {"i64", "&str", "String", "ImmutableString"} :
          \E k \in ByValueDone : params[k].type = T
    /\ \E k \in ByValueDone : args[k] = UNIT /\ args0[k].type = "str"
    /\ \E k \in ByValueDone : args[k] = args0[k] /\ args0[k].type = "str"

\* The thunk of a method has returned.
MethodReturned == pc = "done" /\ callable.abi = "from_method"

\* Slot 0 holds the receiver as the host function left it.
ReceiverVisible ==
    /\ args[1] # UNIT
    /\ args[1] = IF hostWrote = -1 THEN args0[1] ELSE [args0[1] EXCEPT !.val = hostWrote]

\* C6 as written: after the thunk of a method returns, slot 0 holds the
\* receiver with the mutation the host function made and is not the unit
\* placeholder, and every other slot of a parameter is the unit placeholder.
C6_ReceiverKeptOthersTaken ==
    MethodReturned =>
        /\ ReceiverVisible
        /\ \A k \in 2..Len(callable.pars) : args[k] = UNIT

\* C6 as amended: the same, but a slot of a &str parameter keeps its text.
C6_ReceiverKeptOthersTakenUnlessStrRef ==
    MethodReturned =>
        /\ ReceiverVisible
        /\ \A k \in 2..Len(callable.pars) :
              IF params[k].type = "&str" THEN args[k] = args0[k] ELSE args[k] = UNIT

\* A method of three parameters wrote 99 to its receiver.
C6_Witness ==
    /\ MethodReturned
    /\ Len(callable.pars) >= 3
    /\ hostWrote = 99
    /\ args0[1].val # 99
    /\ args[1].val = 99
    /\ \E k \in 2..Len(callable.pars) : args[k] = UNIT

\* C7: a thunk that returns gives Ok of the host function's value for the
\* shapes Plain and Plain+context, never Err; for Fallible and
\* Fallible+context it gives Ok of the value when the host function returned
\* Ok, and the host function's own error when it returned Err.
C7_ResultMapping ==
    pc = "done" =>
        IF callable.shape \in {"Plain", "PlainCtx"}
        THEN /\ hostRet.kind = "value"
             /\ result.kind = "Ok"
             /\ result.v = DynamicFrom(hostRet.v)
        ELSE /\ hostRet.kind \in {"ok", "err"}
             /\ hostRet.kind = "ok" =>
                    (result.kind = "Ok" /\ result.v = DynamicFrom(hostRet.v))
             /\ hostRet.kind = "err" =>
                    (result.kind = "Err" /\ result.e = hostRet.e)

\* A fallible method with context failed with E2 and the thunk returned E2.
C7_Witness ==
    /\ pc = "done"
    /\ callable.shape = "FallibleCtx"
    /\ callable.abi = "from_method"
    /\ hostRet = [kind |-> "err", e |-> "E2"]
    /\ result = [kind |-> "Err", e |-> "E2"]

MaxArity == 20

\* The thunk was invoked with slots that match the fingerprint.
GoodCall == pc # "unregistered" /\ pc # "ready" /\ args0 = GoodArgs(callable)

\* C8: def_register! gives an implementation for every arity from 0 to 20
\* and each of the four shapes; a thunk invoked with matching slots does not
\* panic and calls the host function once, parameter i being slot i
\* converted; and param_types lists the types of the parameters in that
\* order, the underlying type for a receiver.
C8_ArityCoverage ==
    /\ \A n \in 0..MaxArity : \E i \in Impls : i.abi = "from_pure" /\ Len(i.pars) = n
    /\ \A n \in 1..MaxArity : \E i \in Impls : i.abi = "from_method" /\ Len(i.pars) = n
    /\ \A i \in Impls : Len(i.pars) <= MaxArity
    /\ Cardinality(Shapes) = 4
    /\ GoodCall =>
          /\ pc # "panicked"
          /\ pc = "bind" => hostCalls = 0
          /\ pc \in {"called", "done"} =>
                /\ hostCalls = 1
                /\ Len(hostArgs) = Len(callable.pars)
                /\ Len(param_types(callable)) = Len(callable.pars)
                /\ \A k \in 1..Len(hostArgs) :
                      /\ hostArgs[k].val = args0[k].val
                      /\ hostArgs[k].type = param_types(callable)[k]
                      /\ DynTypeOf(hostArgs[k].type) = args0[k].type

\* The method of 20 parameters, fallible and with context, has been called.
C8_Witness ==
    /\ GoodCall
    /\ pc = "done"
    /\ Len(callable.pars) = MaxArity
    /\ callable.abi = "from_method"
    /\ callable.shape = "FallibleCtx"
    /\ hostCalls = 1
    /\ hostArgs[MaxArity].val = 100 + MaxArity

\* The thunk has been invoked.
Invoked == pc # "unregistered" /\ pc # "ready"

\* The 1-based parameters for which the slots as passed have no slot or a
\* slot of another type.
BadParams ==
    {k \in 1..Len(callable.pars) :
        \/ k > Len(args0)
        \/ args0[k].type # DynTypeOf(param_types(callable)[k])}

\* The thunk was invoked with a slot count that is not the arity, or with a
\* slot of another type than its parameter.
Mismatch == Invoked /\ (Len(args0) # Len(callable.pars) \/ BadParams # {})

\* C23 as written: a thunk invoked with fewer or more slots than the arity,
\* or with a slot of another type, never returns (no Ok, no Err) and never
\* gets as far as the host function: it can only end in a panic.
C23_MismatchPanics ==
    Mismatch =>
        /\ pc \in {"bind", "panicked"}
        /\ hostCalls = 0
        /\ result = NoRet

\* C23 as amended: with a slot missing or a slot of another type the thunk
\* converts the parameters before the first such one, panics there and
\* returns nothing, the host function is not called; with more slots than
\* the arity and the first ones fitting it does not panic: it calls the host
\* function once with the first slots, leaves the surplus slots as they are
\* and returns what the host function gave (an Err, if that is what it gave).
C23_MismatchPanicsUnlessSurplus ==
    /\ (Invoked /\ BadParams # {}) =>
          /\ pc \in {"bind", "panicked"}
          /\ hostCalls = 0
          /\ result = NoRet
          /\ Len(params) < MinOf(BadParams)
          /\ pc = "panicked" => Len(params) = MinOf(BadParams) - 1
    /\ (Invoked /\ BadParams = {} /\ Len(args0) > Len(callable.pars)) =>
          /\ pc # "panicked"
          /\ \A k \in (Len(callable.pars) + 1)..Len(args0) : args[k] = args0[k]
          /\ pc \in {"called", "done"} =>
                /\ hostCalls = 1
                /\ \A k \in 1..Len(hostArgs) : hostArgs[k].val = args0[k].val
          /\ pc = "done" => result = map_result(callable.shape, hostRet)

\* A fallible function of two parameters was invoked with three slots and
\* returned the error of the host function.
C23_Witness ==
    /\ Invoked
    /\ Len(callable.pars) = 2
    /\ Len(args0) = 3
    /\ BadParams = {}
    /\ pc = "done"
    /\ hostCalls = 1
    /\ result.kind = "Err"

\* The callable is a method (its first parameter is by reference).
IsMethod == callable.abi = "from_method"

\* C24: a method holds the write lock on slot 0 from the conversion of its
\* first parameter on, through the call of the host function, until the
\* thunk returns; while it is held no other holder reads or writes the value;
\* and when another holder has the value at the time of the conversion, the
\* thunk panics there: the host function is not called and nothing is
\* returned.
C24_ExclusiveReceiver ==
    /\ (IsMethod /\ pc = "bind" /\ Len(params) >= 1) => 0 \in lock
    /\ (IsMethod /\ pc = "called") => (0 \in lock /\ hostCalls = 1)
    /\ 0 \in lock => other = "idle"
    /\ pc \in {"done", "panicked"} => lock = {}
    /\ (other # "idle" /\ Invoked) =>
          /\ pc = "panicked" \/ (pc = "bind" /\ params = <<>>)
          /\ hostCalls = 0
          /\ result = NoRet

\* A method of two parameters was invoked with fitting slots while another
\* holder was writing the value of slot 0: it panicked at the first parameter.
C24_Witness ==
    /\ IsMethod
    /\ Len(callable.pars) = 2
    /\ args0 = GoodArgs(callable)
    /\ other = "writing"
    /\ pc = "panicked"
    /\ params = <<>>
    /\ hostCalls = 0

----------------------------------------------------------------------------
(* Properties of the custom-syntax registry. *)

\* The trimmed keywords that are not empty, in their order.
RECURSIVE NonEmptySegments(_)
NonEmptySegments(keywords) ==
    IF keywords = <<>> THEN <<>>
    ELSE IF trim(Head(keywords)) = <<>> THEN NonEmptySegments(Tail(keywords))
    ELSE <<trim(Head(keywords))>> \o NonEmptySegments(Tail(keywords))

\* The last call was register with a keyword or a reserved word as its first
\* non-empty segment.
RegisteredKeywordFirst ==
    /\ synOp.op = "register"
    /\ NonEmptySegments(synOp.keywords) # <<>>
    /\ NonEmptySegments(synOp.keywords)[1] \in StandardKeywords \cup ReservedWords

\* C9: register with a standard keyword or a reserved word as first
\* non-empty segment returns the error ImproperSymbol for that segment at
\* position 1, and the custom-syntax table (the custom keywords, too) is as
\* it was before the call.
C9_KeywordFirstRejected ==
    RegisteredKeywordFirst =>
        /\ synRet.kind = "Err"
        /\ synRet.err.type = "BadInput"
        /\ synRet.err.lex =
              ImproperSymbol(NonEmptySegments(synOp.keywords)[1], 1)
        /\ custom_syntax = synPre.custom_syntax
        /\ custom_keywords = synPre.custom_keywords

\* register(["if"]) was rejected on an engine that has a rule already.
C9_Witness ==
    /\ RegisteredKeywordFirst
    /\ synOp.keywords = <<STR_if>>
    /\ synRet.kind = "Err"
    /\ STR_my_stmt \in DOMAIN custom_syntax

\* C10 as written: no rule of the custom-syntax table has a marker as key.
C10_NoMarkerKey ==
    \A key \in DOMAIN custom_syntax : key \notin Markers

\* C10 as amended: a rule that register installed (its parsing function is
\* the one register constructs) has its first segment as key, and that is no
\* marker; a rule under a marker key was given to register_raw.
C10_NoMarkerKeyFromRegister ==
    \A key \in DOMAIN custom_syntax :
        custom_syntax[key].parse.kind = "segments" =>
            /\ key \notin Markers
            /\ key = custom_syntax[key].parse.segments[1]

\* register with $expr$ in first position was rejected; the table has a rule
\* that register installed.
C10_Witness ==
    /\ synOp.op = "register"
    /\ synOp.keywords = <<MARKER_EXPR, STR_equals, MARKER_BLOCK>>
    /\ synRet.kind = "Err"
    /\ STR_foo \in DOMAIN custom_syntax
    /\ custom_syntax[STR_foo].parse.kind = "segments"

\* The key under which the last call installed a rule, if it installed one.
InstalledKey ==
    IF synOp.op = "register_raw" THEN Some(synOp.key)
    ELSE IF synOp.op = "register" /\ synRet.kind = "Ok"
            /\ NonEmptySegments(synOp.keywords) # <<>>
    THEN Some(NonEmptySegments(synOp.keywords)[1])
    ELSE None

\* The parsing function of the rule the last call installed.
InstalledParse ==
    IF synOp.op = "register_raw" THEN synOp.parse
    ELSE SegmentsParser(NonEmptySegments(synOp.keywords))

\* C11: after register or register_raw has installed a rule under a key, the
\* table maps that key to the parse callback, the eval callback and the
\* scope_delta of that call, whether or not the key had a rule before; the keys
\* of the table are those it had and this one; and the rule of every other key
\* is as it was.
C11_ReRegistrationReplaces ==
    InstalledKey.kind = "some" =>
        LET key == InstalledKey.v
        IN  /\ DOMAIN custom_syntax = DOMAIN synPre.custom_syntax \cup {key}
            /\ custom_syntax[key] =
                  CustomSyntax(InstalledParse, synOp.func, synOp.new_vars)
            /\ \A k \in DOMAIN synPre.custom_syntax \ {key} :
                  custom_syntax[k] = synPre.custom_syntax[k]

\* register replaced the rule that register_raw had put under my_stmt, with
\* another eval callback and another scope_delta, and the rule of foo stayed.
C11_Witness ==
    /\ synOp.op = "register"
    /\ InstalledKey = Some(STR_my_stmt)
    /\ STR_my_stmt \in DOMAIN synPre.custom_syntax
    /\ synPre.custom_syntax[STR_my_stmt].parse.kind = "raw"
    /\ synPre.custom_syntax[STR_my_stmt].func # synOp.func
    /\ synPre.custom_syntax[STR_my_stmt].scope_delta # synOp.new_vars
    /\ custom_syntax[STR_my_stmt].parse.kind = "segments"
    /\ STR_foo \in DOMAIN synPre.custom_syntax
    /\ custom_syntax[STR_foo] = synPre.custom_syntax[STR_foo]

\* Every character of the string is white space (the empty string included).
IsBlank(str) == \A k \in 1..Len(str) : str[k] = " "

\* The last call was register with a list that has no segment besides empty
\* and white-space strings.
RegisteredNoSegment ==
    /\ synOp.op = "register"
    /\ \A k \in 1..Len(synOp.keywords) : IsBlank(synOp.keywords[k])

\* C12: register with the empty list, or with empty and white-space strings
\* only, returns Ok and leaves the custom-syntax table and the custom-keyword
\* table as they were.
C12_NoSegmentNoOp ==
    RegisteredNoSegment =>
        /\ synRet.kind = "Ok"
        /\ custom_syntax = synPre.custom_syntax
        /\ custom_keywords = synPre.custom_keywords

\* register(["", "  "]) on an engine that has a rule and a custom keyword.
C12_Witness ==
    /\ RegisteredNoSegment
    /\ synOp.keywords = <<STR_empty, STR_blank>>
    /\ synRet.kind = "Ok"
    /\ DOMAIN custom_syntax # {}
    /\ DOMAIN custom_keywords # {}

\* The non-marker segments of the last register call that are disabled
\* symbols of the engine or reserved symbols.
CollidingSegments ==
    LET segs == NonEmptySegments(synOp.keywords)
    IN  {segs[k] : k \in {i \in 1..Len(segs) :
                            /\ segs[i] \notin Markers
                            /\ \/ segs[i] \in disabled_symbols
                               \/ segs[i] \in ReservedWords}}

\* C14: after a register that returned Ok, the custom-keyword table has the
\* keys it had before and the colliding segments of the rule, no others; an
\* entry it had before is as it was; an entry that was added has no
\* precedence.
C14_CollidingSegmentsAreKeywords ==
    (synOp.op = "register" /\ synRet.kind = "Ok") =>
        /\ DOMAIN custom_keywords = DOMAIN synPre.custom_keywords \cup CollidingSegments
        /\ \A k \in DOMAIN synPre.custom_keywords :
              custom_keywords[k] = synPre.custom_keywords[k]
        /\ \A k \in CollidingSegments \ DOMAIN synPre.custom_keywords :
              custom_keywords[k] = None

\* register(["my_stmt", "goto", "$expr$"]) on the engine where my_stmt is
\* disabled and goto is a custom operator already: my_stmt was added, goto
\* kept its precedence.
C14_Witness ==
    /\ synOp.op = "register"
    /\ synRet.kind = "Ok"
    /\ synOp.keywords = <<STR_my_stmt, STR_goto, MARKER_EXPR>>
    /\ CollidingSegments = {STR_my_stmt, STR_goto}
    /\ STR_my_stmt \notin DOMAIN synPre.custom_keywords
    /\ custom_keywords[STR_my_stmt] = None
    /\ synPre.custom_keywords[STR_goto] = Some(1)
    /\ custom_keywords[STR_goto] = Some(1)

\* Any k segments, as the parser can have matched them.
StreamsOfLen(k) == {[i \in 1..k |-> STR_foo], [i \in 1..k |-> MARKER_EXPR]}

\* The parse callback that register constructed over the segments segs, given
\* k matched segments, asks for segment k (0-based) when there is one and
\* signals completion when there is none, whatever the look-ahead.
CallbackFollows(parse, segs) ==
    \A k \in 0..(Len(segs) + 1) : \A look_ahead \in LookAheads :
        \A matched \in StreamsOfLen(k) :
            parse_call(parse, matched, look_ahead) =
                IF k < Len(segs)
                THEN [kind |-> "Ok", v |-> Some(segs[k + 1])]
                ELSE [kind |-> "Ok", v |-> None]

\* C13: the rule that register installs has the trimmed non-empty keywords as
\* segments, and its parse callback follows them and never fails; so the
\* parser, started with the key matched, has matched a prefix of the segments
\* (an identifier for $ident$) of no more than n segments, is asked for the
\* segment that comes next, and the rule is complete exactly when n segments
\* are matched.
C13_SynthesizedParse ==
    /\ (synOp.op = "register" /\ InstalledKey.kind = "some") =>
          custom_syntax[InstalledKey.v].parse.segments = NonEmptySegments(synOp.keywords)
    /\ \A key \in DOMAIN custom_syntax :
          custom_syntax[key].parse.kind = "segments" =>
              CallbackFollows(custom_syntax[key].parse, custom_syntax[key].parse.segments)
    /\ (parsing.pc # "idle" /\ custom_syntax[parsing.key].parse.kind = "segments") =>
          LET segs == custom_syntax[parsing.key].parse.segments
              n == Len(segs)
          IN  /\ Len(stream) >= 1 /\ Len(stream) <= n
              /\ \A k \in 1..Len(stream) : stream[k] = Matched(segs[k])
              /\ expected.kind # "Err"
              /\ parsing.pc = "complete" <=>
                    (Len(stream) = n /\ expected = [kind |-> "Ok", v |-> None])
              /\ (parsing.pc = "matching" /\ expected # NoCall) =>
                    expected = [kind |-> "Ok", v |-> Some(segs[Len(stream)])]

\* The rule ["my_stmt", "$ident$", "=", "$expr$"] is complete: the parser
\* has matched the key, an identifier, = and $expr$.
C13_Witness ==
    /\ parsing = [pc |-> "complete", key |-> STR_my_stmt]
    /\ custom_syntax[STR_my_stmt].parse =
          SegmentsParser(<<STR_my_stmt, MARKER_IDENT, STR_equals, MARKER_EXPR>>)
    /\ stream = <<STR_my_stmt, STR_foo, STR_equals, MARKER_EXPR>>
    /\ expected = [kind |-> "Ok", v |-> None]

\* A segment that may stand after the first one: a marker, a literal token
\* of the lexer, or a bare identifier.
LaterSegment(str) ==
    \/ str \in Markers
    \/ lookup_from_syntax(str).kind = "some"
    \/ is_valid_identifier(str)

\* The last call was register with a first segment that can be a key and
\* with markers, literal tokens and bare identifiers after it.
RegisteredLaterSegments ==
    /\ synOp.op = "register"
    /\ LET segments == NonEmptySegments(synOp.keywords)
       IN  /\ Len(segments) >= 2
           /\ match_arm(segments[1], lookup_from_syntax(segments[1]), TRUE) = "identifier"
           /\ \A i \in 2..Len(segments) : LaterSegment(segments[i])

\* C25: register with a marker, a literal token or a bare identifier in every
\* position after the first succeeds, and the rule under the first segment
\* has the segments in their given positions.
C25_LaterSegmentsAccepted ==
    RegisteredLaterSegments =>
        /\ synRet.kind = "Ok"
        /\ NonEmptySegments(synOp.keywords)[1] \in DOMAIN custom_syntax
        /\ custom_syntax[NonEmptySegments(synOp.keywords)[1]].parse =
              SegmentsParser(NonEmptySegments(synOp.keywords))

\* C28: a register call that returns an error leaves the custom-syntax table
\* and the custom-keyword table as they were before the call.
C28_ErrorLeavesEngine ==
    (synOp.op = "register" /\ synRet.kind = "Err") =>
        /\ custom_syntax = synPre.custom_syntax
        /\ custom_keywords = synPre.custom_keywords

C29_SnapshotLooksUpAlike ==
    lastOp.op = "clone_visible" =>
        \A name \in ScopeNames :
            /\ contains(ret.v, name) = contains(pre, name)
            /\ \A T \in ValueTypes : get_value(ret.v, name, T) = get_value(pre, name, T)
            /\ get_index(ret.v, name).kind = get_index(pre, name).kind
            /\ get_index(pre, name).kind = "some" =>
                  get_index(ret.v, name).v.access = get_index(pre, name).v.access

\* clone_visible of a Scope in which a constant x of type str shadows a
\* variable x of type int and y has no binding: the lookups of x on the clone
\* find the constant, those of y find nothing.
C29_Witness ==
    /\ lastOp.op = "clone_visible"
    /\ Len(pre.names) = 3
    /\ Positions(pre, "x") = {1, 3}
    /\ pre.values[1].type = "int" /\ pre.values[1].access = "ReadWrite"
    /\ pre.values[3].type = "str" /\ pre.values[3].access = "ReadOnly"
    /\ get_index(ret.v, "x").v.access = "ReadOnly"
    /\ get_value(ret.v, "x", "int") = None
    /\ get_value(ret.v, "x", "str") # None
    /\ Len(ret.v.names) = 2

\* The sum of f over the finite set S.
RECURSIVE SumOver(_, _)
SumOver(S, f) ==
    IF S = {} THEN 0
    ELSE LET x == CHOOSE y \in S : TRUE
         IN  f[x] + SumOver(S \ {x}, f)

\* keys and values of the map m have one element per entry, in the order of
\* the keys, and the i-th value is the value bound to the i-th key.
KeysValuesOf(m) ==
    LET ks == keys(m)
        vs == map_values(m)
    IN  /\ Len(ks) = Cardinality(DOMAIN m)
        /\ Len(vs) = Cardinality(DOMAIN m)
        /\ \A i \in 1..Len(ks) : ks[i] \in DOMAIN m /\ vs[i] = m[ks[i]]
        /\ \A i, j \in 1..Len(ks) : i < j => StrLess(ks[i], ks[j])

\* C26: keys and values of the map have one element per entry, in the order
\* of the keys, the i-th value bound to the i-th key; a call of keys or of
\* values returns that array and leaves the map as it was; the script that
\* loops over both has, at its end, the lengths of all keys and the sum of
\* all values (9 for #{a: 1, b: 2, c: 3}).
C26_KeysValues ==
    /\ KeysValuesOf(mapVar)
    /\ mapOp.op = "keys" =>
          mapRet.v = keys(mapVar) /\ mapVar = mapPre.map /\ map2Var = mapPre.map2
    /\ mapOp.op = "values" =>
          mapRet.v = map_values(mapVar) /\ mapVar = mapPre.map /\ map2Var = mapPre.map2
    /\ forLoop.pc = "done" =>
          /\ Len(forLoop.keys) = SumOver(DOMAIN mapVar, [k \in DOMAIN mapVar |-> Len(k)])
          /\ forLoop.sum = SumOver(DOMAIN mapVar, mapVar)
          /\ forLoop.result = Len(forLoop.keys) + forLoop.sum
          /\ mapVar = MapOf(<<<<STR_a, 1>>, <<STR_b, 2>>, <<STR_c, 3>>>>) => forLoop.result = 9

\* test_for_object came to its end with 9, its keys met in the order a, b, c.
C26_Witness ==
    /\ forLoop.pc = "done"
    /\ mapVar = MapOf(<<<<STR_c, 3>>, <<STR_a, 1>>, <<STR_b, 2>>>>)
    /\ forLoop.keys = <<"a", "b", "c">>
    /\ forLoop.sum = 6
    /\ forLoop.result = 9

\* The map that has every key of m and of m2, with the value of `first` for
\* a key of both.
Combined(m, m2, first) ==
    [k \in DOMAIN m \cup DOMAIN m2 |->
        IF k \in DOMAIN m /\ k \in DOMAIN m2 THEN (IF first THEN m[k] ELSE m2[k])
        ELSE IF k \in DOMAIN m THEN m[k] ELSE m2[k]]

\* C30: mixin leaves in the first map, and merge returns, the map of every
\* key of both maps with the value of map2 for a key of both; fill_with
\* leaves in the first map the map of every key of both with its own value
\* for a key of both; merge leaves both maps, mixin and fill_with the second
\* map, as they were.
C30_CombinationPrecedence ==
    /\ mapOp.op = "mixin" =>
          mapVar = Combined(mapPre.map, mapPre.map2, FALSE) /\ map2Var = mapPre.map2
    /\ mapOp.op = "merge" =>
          /\ mapRet.v = Combined(mapPre.map, mapPre.map2, FALSE)
          /\ mapVar = mapPre.map
          /\ map2Var = mapPre.map2
    /\ mapOp.op = "fill_with" =>
          mapVar = Combined(mapPre.map, mapPre.map2, TRUE) /\ map2Var = mapPre.map2

\* fill_with of two maps that have a key in common with different values and
\* a key each that the other has not.
C30_Witness ==
    /\ mapOp.op = "fill_with"
    /\ \E k \in DOMAIN mapPre.map \cap DOMAIN mapPre.map2 :
          mapPre.map[k] # mapPre.map2[k] /\ mapVar[k] = mapPre.map[k]
    /\ DOMAIN mapPre.map \ DOMAIN mapPre.map2 # {}
    /\ DOMAIN mapPre.map2 \ DOMAIN mapPre.map # {}

====
